---- MODULE Spec2Model ----
(***************************************************************************)
(* A model of zyncoder.c: rotary encoders and switches read over native    *)
(* GPIO, an MCP23017 port expander or a UART link, turned into MIDI / OSC  *)
(* emissions.  Each C function is one action (or one operator on a record  *)
(* when it is a pure computation on one encoder or one switch).            *)
(***************************************************************************)
EXTENDS Integers, Sequences, FiniteSets, TLC

(***************************************************************************)
(* Machine arithmetic.  `unsigned int` values are kept modulo UINT_RANGE.  *)
(* TLC's integers are 32-bit signed, so the model's `unsigned int` is 30   *)
(* bits wide instead of 32: every wrap-around the code has, the model has, *)
(* at 2^30 instead of 2^32.                                                *)
(***************************************************************************)
UINT_RANGE == 2^30

uint(x) == x % UINT_RANGE

\* a + b in unsigned int arithmetic, a and b already unsigned ints
uadd(a, b) == uint(a + b)

\* a - b in unsigned int arithmetic
usub(a, b) == uint(a - b)

\* a * k in unsigned int arithmetic for the small constant k = 4 (repeated
\* addition keeps every intermediate value inside TLC's integers)
umul4(a) == uadd(uadd(a, a), uadd(a, a))

uint8(x) == x % 256

ZYNCODER_TICKS_PER_RETENT == 4

\* capacity of the zyncoders array (the model keeps a small array)
MAX_NUM_ZYNCODERS == 2

\* capacity of the zynswitches array (the model keeps a small array)
MAX_NUM_ZYNSWITCHES == 2

VARIABLES
    now,          \* CLOCK_MONOTONIC in microseconds
    zyncoders,    \* struct zyncoder_st zyncoders[MAX_NUM_ZYNCODERS]
    zynswitches,  \* struct zynswitch_st zynswitches[MAX_NUM_ZYNSWITCHES]
    out,          \* the messages the last operation handed to the sinks, in order
    last,         \* the last operation: its name, arguments and result
    fault,        \* TRUE once the process has trapped (integer division by zero)
    oob,          \* TRUE once a write went past the end of an array
    script,       \* per encoder: how far the observations have followed DetentScript
    watch,        \* per encoder: what has been observed of it since its setup
    calls,        \* the calls two threads are in the middle of
    pressed,      \* per switch: the instant of the press edge of the press in
                  \* progress, 0 when the switch is not held
    uart          \* UART build: buffer, head, prev_head, tail, elementsInBuffer and
                  \* wake, the instant the reader thread's usleep ends

vars ==
    <<now, zyncoders, zynswitches, out, last, fault, oob, script, watch, calls,
      pressed, uart>>

EncIdx == 0 .. (MAX_NUM_ZYNCODERS - 1)
SwIdx == 0 .. (MAX_NUM_ZYNSWITCHES - 1)

(***************************************************************************)
(* init_zyncoder: the arrays are statics (zero filled); every entry is     *)
(* disabled, the dtus ring of every encoder is zero.                       *)
(***************************************************************************)
ZeroRing == [j \in 1 .. ZYNCODER_TICKS_PER_RETENT |-> 0]

ZyncoderInit ==
    [enabled |-> 0, pin_a |-> 0, pin_b |-> 0,
     pin_a_last_state |-> 0, pin_b_last_state |-> 0,
     midi_chan |-> 0, midi_ctrl |-> 0,
     osc_lo_addr |-> FALSE, osc_path |-> FALSE,
     max_value |-> 0, step |-> 0, subvalue |-> 0, value |-> 0,
     last_encoded |-> 0, tsus |-> 0, dtus |-> ZeroRing]

ZynswitchInit ==
    [enabled |-> 0, pin |-> 0, tsus |-> 0, dtus |-> 0, status |-> 0,
     midi_type |-> "NONE_EVENT", midi_chan |-> 0, midi_num |-> 0, midi_val |-> 0]

\* the last operation: its name, the index (or channel) it was called with, the
\* value it returned, rep: it is an update_zyncoder that was handed the pin
\* pair of the update_zyncoder of the same encoder just before it, and acc: it
\* is an update_zyncoder that passed the debounce test
Op(name, i, ret) ==
    [op |-> name, i |-> i, ret |-> ret, rep |-> FALSE, acc |-> FALSE, dsval |-> 0]

(***************************************************************************)
(* An observer of the pin pairs handed to update_zyncoder: one full detent *)
(* Up, 00 -> 10 -> 11 -> 01 -> 00, then the same transitions reversed.     *)
(* script[i].n counts how many of the eight transitions the last           *)
(* observations of encoder i have made in a row, with no other write to    *)
(* the encoder in between; v0 and sub0 are value and subvalue before the   *)
(* first, d the step size of the first, same whether every one passed the  *)
(* debounce with that step size.  It runs only where on is set.            *)
(***************************************************************************)
DetentScript == <<2, 3, 1, 0, 1, 3, 2, 0>>

ScriptIdle(on) == [on |-> on, n |-> 0, v0 |-> 0, sub0 |-> 0, d |-> 0, same |-> FALSE]

ScriptStep(s, z, encoded, r) ==
    LET first == [on |-> TRUE, n |-> 1, v0 |-> z.value, sub0 |-> z.subvalue,
                  d |-> r.dsval, same |-> r.accepted]
    IN  IF ~s.on THEN s
        ELSE IF s.n \in 1 .. 7 /\ encoded = DetentScript[s.n + 1]
        THEN [s EXCEPT !.n = s.n + 1,
                       !.same = s.same /\ r.accepted /\ r.dsval = s.d]
        ELSE IF z.last_encoded = 0 /\ encoded = DetentScript[1] THEN first
        ELSE ScriptIdle(TRUE)

(***************************************************************************)
(* A second observer, of what update_zyncoder has been handed since the    *)
(* encoder's setup_zyncoder.  In mode "first" it keeps the first WatchLen  *)
(* pin pairs, seen, and the messages they sent, sent, as long as each call *)
(* came SlowGap or more after the one before.  In mode "burst" it counts,  *)
(* up to BurstLen, the Up ticks that passed the debounce test, each        *)
(* exactly SlowGap after the one before, with no other call in between.    *)
(* v0 and e0 are the value and the last_encoded setup_zyncoder left.  ok   *)
(* turns FALSE, until the next setup_zyncoder, when the calls leave the    *)
(* pattern or another operation writes the encoder.                        *)
(***************************************************************************)
WatchModes == {"off", "first", "burst"}

WatchLen == 3

BurstLen == 8

SlowGap == 2000

WatchIdle(mode, z) ==
    [mode |-> mode, ok |-> TRUE, n |-> 0, t |-> 0,
     v0 |-> IF mode = "off" THEN 0 ELSE z.value,
     e0 |-> IF mode = "off" THEN 0 ELSE z.last_encoded,
     seen |-> <<>>, sent |-> <<>>]

WatchSpoiled(w) ==
    IF w.mode = "off" THEN w ELSE [WatchIdle(w.mode, ZyncoderInit) EXCEPT !.ok = FALSE]

WatchStep(w, encoded, up, r, msgs, t) ==
    IF w.mode = "off" \/ ~w.ok THEN w
    ELSE IF w.mode = "first"
    THEN IF w.n < WatchLen /\ (w.n = 0 \/ t - w.t >= SlowGap)
         THEN [w EXCEPT !.n = w.n + 1, !.t = t,
                        !.seen = Append(w.seen, encoded), !.sent = w.sent \o msgs]
         ELSE WatchSpoiled(w)
    ELSE IF w.n < BurstLen /\ up = 1 /\ r.accepted /\ (w.n = 0 \/ t - w.t = SlowGap)
         THEN [w EXCEPT !.n = w.n + 1, !.t = t]
         ELSE WatchSpoiled(w)

\* no call is in progress
NoCalls == [update |-> <<>>, set |-> <<>>, midi |-> <<>>, send |-> <<>>,
            zs0 |-> <<>>, T |-> <<>>, M |-> <<>>]

NoOp == Op("init", 0, 0)

(***************************************************************************)
(* UART build: the frame buffer of the reader thread.                      *)
(***************************************************************************)
PAYLOAD_SIZE_BYTES == 2

BUFFER_SIZE_BYTES == PAYLOAD_SIZE_BYTES + 2

START_FRAME_VALUE == 234

END_FRAME_VALUE == 251

\* flushBuffer, lines 1008-1019
UartFlushed(wake) ==
    [buffer |-> [k \in 0 .. (BUFFER_SIZE_BYTES - 1) |-> 0],
     head |-> 0, prev_head |-> 0, tail |-> 0, elementsInBuffer |-> 0, wake |-> wake]

init_zyncoder ==
    /\ zyncoders = [i \in EncIdx |-> ZyncoderInit]
    /\ zynswitches = [i \in SwIdx |-> ZynswitchInit]
    /\ out = <<>>
    /\ last = NoOp
    /\ fault = FALSE
    /\ oob = FALSE
    /\ script \in {[i \in EncIdx |-> ScriptIdle(on)] : on \in BOOLEAN}
    /\ watch \in {[i \in EncIdx |-> WatchIdle(mode, ZyncoderInit)] : mode \in WatchModes}
    /\ calls = NoCalls
    /\ pressed = [i \in SwIdx |-> 0]
    /\ uart = UartFlushed(0)

(***************************************************************************)
(* Outbound messages.                                                      *)
(***************************************************************************)
Msg(sink, fmt, chan, num, val) ==
    [sink |-> sink, fmt |-> fmt, chan |-> chan, num |-> num, val |-> val]

\* the control change handed to the UI sink as well, as send_zynswitch_midi does
send_zyncoder_mirrored(z) ==
    IF z.enabled = 0 THEN <<>>
    ELSE IF z.midi_ctrl > 0
         THEN << Msg("internal_send_ccontrol_change", "", z.midi_chan, z.midi_ctrl, z.value),
                 Msg("write_zynmidi_ccontrol_change", "", z.midi_chan, z.midi_ctrl, z.value) >>
    ELSE IF z.osc_lo_addr /\ z.osc_path
         THEN << Msg("lo_send", "i", 0, 0, z.value) >>
    ELSE <<>>

\* send_zyncoder(i) for an encoder whose record is z: the messages it sends
send_zyncoder(z) ==
    IF z.enabled = 0 THEN <<>>
    ELSE IF z.midi_ctrl > 0
         THEN << Msg("internal_send_ccontrol_change", "", z.midi_chan, z.midi_ctrl, z.value) >>
    ELSE IF z.osc_lo_addr /\ z.osc_path
         THEN IF z.step >= 8
              THEN IF z.value >= 64 THEN << Msg("lo_send", "T", 0, 0, 0) >>
                   ELSE << Msg("lo_send", "F", 0, 0, 0) >>
              ELSE << Msg("lo_send", "i", 0, 0, z.value) >>
    ELSE <<>>

(***************************************************************************)
(* Quadrature decoding (native GPIO and port expander builds).             *)
(***************************************************************************)
Encoded(MSB, LSB) == MSB * 2 + LSB

QuadSum(last_encoded, encoded) == uint8(last_encoded * 4 + encoded)

\* a slip in the table: 0b0101 for 0b0100
QuadUp_typo(sum) == sum \in {13, 5, 2, 11}

QuadUp(sum) == sum \in {13, 4, 2, 11}

QuadDown_typo(sum) == (~QuadUp(sum)) /\ sum \in {14, 7, 1, 9}

QuadDown(sum) == (~QuadUp(sum)) /\ sum \in {14, 7, 1, 8}

(***************************************************************************)
(* update_zyncoder, velocity mode (step == 0), lines 619-662.  t is the    *)
(* clock reading.  The result is the set of outcomes: one outcome, except  *)
(* when dtus_avg is 0, where the division at line 640 is undefined (the    *)
(* process traps, or the quotient is arbitrary).                           *)
(***************************************************************************)
RingSum(dtus, ring) ==
    uadd(uadd(uadd(uadd(dtus, ring[1]), ring[2]), ring[3]), ring[4])

RingShift(ring, dtus) ==
    [j \in 1 .. ZYNCODER_TICKS_PER_RETENT |->
        IF j < ZYNCODER_TICKS_PER_RETENT THEN ring[j + 1] ELSE dtus]

\* the quotient with its lower clamp only
ClampDsval_open(q) == IF q < 1 THEN 1 ELSE q

\* lines 640-642
ClampDsval(q) ==
    IF q < 1 THEN 1
    ELSE IF q > 2 * ZYNCODER_TICKS_PER_RETENT THEN 2 * ZYNCODER_TICKS_PER_RETENT
    ELSE q

\* the Down branch rounding down like the Up branch
VelocityAdvance_floor(z, up, down, dsval, t) ==
    LET sub == IF up = 1
               THEN IF usub(z.max_value, z.subvalue) >= dsval
                    THEN uadd(z.subvalue, dsval) ELSE z.max_value
               ELSE IF down = 1
               THEN IF z.subvalue >= dsval THEN usub(z.subvalue, dsval) ELSE 0
               ELSE z.subvalue
        value == IF up = 1 \/ down = 1 THEN sub \div ZYNCODER_TICKS_PER_RETENT ELSE -1
        changed == value >= 0 /\ z.value # value
        z1 == [z EXCEPT !.subvalue = sub, !.tsus = t,
                        !.value = IF changed THEN value ELSE z.value]
    IN  [z |-> z1, sent |-> changed, accepted |-> TRUE, dsval |-> dsval, fault |-> FALSE]

\* lines 644-661 for one step size dsval
VelocityAdvance(z, up, down, dsval, t) ==
    LET sub == IF up = 1
               THEN IF usub(z.max_value, z.subvalue) >= dsval
                    THEN uadd(z.subvalue, dsval) ELSE z.max_value
               ELSE IF down = 1
               THEN IF z.subvalue >= dsval THEN usub(z.subvalue, dsval) ELSE 0
               ELSE z.subvalue
        value == IF up = 1 THEN sub \div ZYNCODER_TICKS_PER_RETENT
                 ELSE IF down = 1
                 THEN uadd(sub, ZYNCODER_TICKS_PER_RETENT - 1) \div ZYNCODER_TICKS_PER_RETENT
                 ELSE -1
        changed == value >= 0 /\ z.value # value
        z1 == [z EXCEPT !.subvalue = sub, !.tsus = t,
                        !.value = IF changed THEN value ELSE z.value]
    IN  [z |-> z1, sent |-> changed, accepted |-> TRUE, dsval |-> dsval, fault |-> FALSE]

\* velocity mode taking every observation, however close to the last tick
VelocityTick_undebounced(z, up, down, t) ==
    LET dtus == uint(t - z.tsus)
        dtus_avg == RingSum(dtus, z.dtus) \div (ZYNCODER_TICKS_PER_RETENT + 1)
        z1 == [z EXCEPT !.dtus = RingShift(z.dtus, dtus)]
    IN  IF dtus_avg = 0
        THEN {VelocityAdvance(z1, up, down, d, t) :
                        d \in 1 .. (2 * ZYNCODER_TICKS_PER_RETENT)}
        ELSE {VelocityAdvance(z1, up, down,
                  ClampDsval((10000 * ZYNCODER_TICKS_PER_RETENT) \div dtus_avg), t)}

VelocityTick(z, up, down, t) ==
    LET dtus == uint(t - z.tsus)
        dtus_avg == RingSum(dtus, z.dtus) \div (ZYNCODER_TICKS_PER_RETENT + 1)
        z1 == [z EXCEPT !.dtus = RingShift(z.dtus, dtus)]
    IN  IF dtus < 1000
        THEN {[z |-> z, sent |-> FALSE, accepted |-> FALSE, dsval |-> 0, fault |-> FALSE]}
        ELSE IF dtus_avg = 0
        THEN {[z |-> z1, sent |-> FALSE, accepted |-> TRUE, dsval |-> 0, fault |-> TRUE]}
             \cup {VelocityAdvance(z1, up, down, d, t) :
                        d \in 1 .. (2 * ZYNCODER_TICKS_PER_RETENT)}
        ELSE {VelocityAdvance(z1, up, down,
                  ClampDsval((10000 * ZYNCODER_TICKS_PER_RETENT) \div dtus_avg), t)}

\* a tick of fixed-step mode counted for a whole detent of four transitions
FixedTick_detent(z, up, down) ==
    LET v0 == IF z.value > z.max_value THEN z.max_value ELSE z.value
        whole == z.last_encoded = 0
        v1 == IF usub(z.max_value, v0) >= z.step /\ up = 1 /\ whole THEN uadd(v0, z.step)
              ELSE IF v0 >= z.step /\ down = 1 /\ whole THEN usub(v0, z.step)
              ELSE v0
    IN  [z |-> [z EXCEPT !.value = v1], sent |-> (z.value # v1),
         accepted |-> TRUE, dsval |-> 0, fault |-> FALSE]

\* update_zyncoder, fixed-step mode (step > 0), lines 663-669
FixedTick(z, up, down) ==
    LET v0 == IF z.value > z.max_value THEN z.max_value ELSE z.value
        v1 == IF usub(z.max_value, v0) >= z.step /\ up = 1 THEN uadd(v0, z.step)
              ELSE IF v0 >= z.step /\ down = 1 THEN usub(v0, z.step)
              ELSE v0
    IN  [z |-> [z EXCEPT !.value = v1], sent |-> (z.value # v1),
         accepted |-> TRUE, dsval |-> 0, fault |-> FALSE]

\* lines 619-669: the mode split
Tick(z, up, down, t) ==
    IF z.step = 0 THEN VelocityTick(z, up, down, t) ELSE {FixedTick(z, up, down)}

(***************************************************************************)
(* update_zyncoder(i, MSB, LSB): one observation of the two pins of        *)
(* encoder i.  In the MCP23008_ENCODERS build MSB and LSB are what         *)
(* digitalRead returns inside the handler; in the MCP23017 build they are  *)
(* the arguments.                                                          *)
(***************************************************************************)
update_zyncoder(i, MSB, LSB) ==
    /\ ~fault
    /\ IF i >= MAX_NUM_ZYNCODERS \/ zyncoders[i].enabled = 0
       THEN /\ UNCHANGED <<zyncoders, fault, script, watch>>
            /\ out' = <<>>
            /\ last' = Op("update_zyncoder", i, 0)
       ELSE LET z == zyncoders[i]
                encoded == Encoded(MSB, LSB)
                sum == QuadSum(z.last_encoded, encoded)
                up == IF QuadUp(sum) THEN 1 ELSE 0
                down == IF QuadDown(sum) THEN 1 ELSE 0
                z1 == [z EXCEPT !.last_encoded = encoded]
            IN  \E r \in Tick(z1, up, down, now) :
                    /\ zyncoders' = [zyncoders EXCEPT ![i] = r.z]
                    /\ fault' = r.fault
                    /\ out' = IF r.sent THEN send_zyncoder(r.z) ELSE <<>>
                    /\ script' = [script EXCEPT ![i] = ScriptStep(script[i], z, encoded, r)]
                    /\ watch' = [watch EXCEPT ![i] =
                                    WatchStep(watch[i], encoded, up, r, out', now)]
                    /\ last' = [Op("update_zyncoder", i, 0) EXCEPT
                                  !.acc = r.accepted,
                                  !.dsval = r.dsval,
                                  !.rep = /\ last.op = "update_zyncoder"
                                          /\ last.i = i
                                          /\ z.last_encoded = encoded]
    /\ UNCHANGED <<now, calls, zynswitches, pressed, uart, oob>>

(***************************************************************************)
(* setup_zyncoder, lines 696-763.  osc is what osc_path holds: "null" (no  *)
(* path), "noport" (the text before the colon is not a positive port) or   *)
(* "path" (<port>:<path>).  The hardware calls of lines 743-759 register   *)
(* interrupt handlers (MCP23008_ENCODERS build) and change no state.       *)
(***************************************************************************)
\* last_encoded and tsus cleared by every setup
SetupRecord_cleared(z, pin_a, pin_b, midi_chan, midi_ctrl, osc, value, max_value, step) ==
    LET v == IF value > max_value THEN max_value ELSE value
    IN  [z EXCEPT
           !.midi_chan = IF midi_chan > 15 THEN 0 ELSE midi_chan,
           !.midi_ctrl = IF midi_ctrl > 127 THEN 1 ELSE midi_ctrl,
           !.osc_lo_addr = IF osc = "path" THEN TRUE ELSE z.osc_lo_addr,
           !.osc_path = (osc = "path"),
           !.step = step,
           !.value = v,
           !.subvalue = IF step > 0 THEN 0 ELSE umul4(v),
           !.max_value = IF step > 0 THEN max_value ELSE umul4(max_value),
           !.enabled = 1, !.pin_a = pin_a, !.pin_b = pin_b,
           !.last_encoded = 0, !.tsus = 0]

\* lines 703-741
SetupRecord(z, pin_a, pin_b, midi_chan, midi_ctrl, osc, value, max_value, step) ==
    LET v == IF value > max_value THEN max_value ELSE value
        z1 == [z EXCEPT
                 !.midi_chan = IF midi_chan > 15 THEN 0 ELSE midi_chan,
                 !.midi_ctrl = IF midi_ctrl > 127 THEN 1 ELSE midi_ctrl,
                 !.osc_lo_addr = IF osc = "path" THEN TRUE ELSE z.osc_lo_addr,
                 !.osc_path = (osc = "path"),
                 !.step = step,
                 !.value = v,
                 !.subvalue = IF step > 0 THEN 0 ELSE umul4(v),
                 !.max_value = IF step > 0 THEN max_value ELSE umul4(max_value)]
    IN  IF z.enabled = 0 \/ z.pin_a # pin_a \/ z.pin_b # pin_b
        THEN [z1 EXCEPT !.enabled = 1, !.pin_a = pin_a, !.pin_b = pin_b,
                        !.last_encoded = 0, !.tsus = 0]
        ELSE z1

setup_zyncoder(i, pin_a, pin_b, midi_chan, midi_ctrl, osc, value, max_value, step) ==
    /\ ~fault
    /\ IF i > MAX_NUM_ZYNCODERS
       THEN /\ UNCHANGED <<zyncoders, oob>>
            /\ last' = Op("setup_zyncoder", i, 0)
       ELSE IF i = MAX_NUM_ZYNCODERS
       THEN \* zyncoders + MAX_NUM_ZYNCODERS is one past the array: the record is
            \* written outside it
            /\ oob' = TRUE
            /\ UNCHANGED zyncoders
            /\ last' = Op("setup_zyncoder", i, 1)
       ELSE /\ zyncoders' = [zyncoders EXCEPT ![i] =
                   SetupRecord(zyncoders[i], pin_a, pin_b, midi_chan, midi_ctrl, osc,
                               value, max_value, step)]
            /\ UNCHANGED oob
            /\ last' = Op("setup_zyncoder", i, 1)
    /\ script' = [j \in EncIdx |-> IF j = i THEN ScriptIdle(script[j].on) ELSE script[j]]
    /\ watch' = [j \in EncIdx |->
                    IF j = i THEN WatchIdle(watch[j].mode, zyncoders'[j])
                    ELSE watch[j]]
    /\ out' = <<>>
    /\ UNCHANGED <<now, calls, zynswitches, pressed, uart, fault>>

\* get_value_zyncoder, lines 765-768
get_value_zyncoder(i) ==
    /\ ~fault
    /\ last' = Op("get_value_zyncoder", i,
                  IF i >= MAX_NUM_ZYNCODERS THEN 0 ELSE zyncoders[i].value)
    /\ out' = <<>>
    /\ UNCHANGED <<now, calls, zyncoders, zynswitches, pressed, uart, fault, oob, script, watch>>

\* set_value_zyncoder, lines 776-784: the new record
\* the new value stored without the comparison with max_value
SetValueRecord_unclamped(z, v) ==
    IF z.step = 0
    THEN [z EXCEPT !.subvalue = umul4(v), !.value = umul4(v) \div ZYNCODER_TICKS_PER_RETENT]
    ELSE [z EXCEPT !.value = v]

\* lines 776-784
SetValueRecord(z, v) ==
    IF z.step = 0
    THEN LET sv == umul4(v)
             sub == IF sv > z.max_value THEN z.max_value ELSE sv
         IN  [z EXCEPT !.subvalue = sub, !.value = sub \div ZYNCODER_TICKS_PER_RETENT]
    ELSE [z EXCEPT !.value = IF v > z.max_value THEN z.max_value ELSE v]

\* set_value_zyncoder, lines 770-786
set_value_zyncoder(i, v, send) ==
    /\ ~fault
    /\ IF i >= MAX_NUM_ZYNCODERS \/ zyncoders[i].enabled = 0
       THEN /\ UNCHANGED zyncoders
            /\ out' = <<>>
       ELSE LET z1 == SetValueRecord(zyncoders[i], v)
            IN  /\ zyncoders' = [zyncoders EXCEPT ![i] = z1]
                /\ out' = IF send # 0 THEN send_zyncoder(z1) ELSE <<>>
    /\ last' = Op("set_value_zyncoder", i, 0)
    /\ script' = [j \in EncIdx |-> IF j = i THEN ScriptIdle(script[j].on) ELSE script[j]]
    /\ watch' = [j \in EncIdx |-> IF j = i THEN WatchSpoiled(watch[j]) ELSE watch[j]]
    /\ UNCHANGED <<now, calls, zynswitches, pressed, uart, fault, oob>>

\* value scaled like subvalue
MidiEventRecord_scaled(z, midi_chan, midi_ctrl, val) ==
    IF z.enabled # 0 /\ z.midi_chan = midi_chan /\ z.midi_ctrl = midi_ctrl
    THEN [z EXCEPT !.value = val * ZYNCODER_TICKS_PER_RETENT,
                   !.subvalue = val * ZYNCODER_TICKS_PER_RETENT]
    ELSE z

\* midi_event_zyncoders, lines 548-550: what it does to one encoder
MidiEventRecord(z, midi_chan, midi_ctrl, val) ==
    IF z.enabled # 0 /\ z.midi_chan = midi_chan /\ z.midi_ctrl = midi_ctrl
    THEN [z EXCEPT !.value = val, !.subvalue = val * ZYNCODER_TICKS_PER_RETENT]
    ELSE z

\* midi_event_zyncoders, lines 544-554: the array after the scan
MidiEventArray(zs, midi_chan, midi_ctrl, val) ==
    [j \in EncIdx |-> MidiEventRecord(zs[j], midi_chan, midi_ctrl, val)]

\* the scan forwarding each change to the sinks, as update_zyncoder does
midi_event_zyncoders_feedback(midi_chan, midi_ctrl, val) ==
    /\ ~fault
    /\ zyncoders' = MidiEventArray(zyncoders, midi_chan, midi_ctrl, val)
    /\ out' = IF zyncoders'[0] # zyncoders[0] THEN send_zyncoder(zyncoders'[0]) ELSE <<>>
    /\ last' = Op("midi_event_zyncoders", midi_chan, 0)
    /\ script' = [j \in EncIdx |-> ScriptIdle(script[j].on)]
    /\ watch' = [j \in EncIdx |-> WatchSpoiled(watch[j])]
    /\ UNCHANGED <<now, calls, zynswitches, pressed, uart, fault, oob>>

\* midi_event_zyncoders called from the MIDI router
midi_event_zyncoders(midi_chan, midi_ctrl, val) ==
    /\ ~fault
    /\ zyncoders' = MidiEventArray(zyncoders, midi_chan, midi_ctrl, val)
    /\ out' = <<>>
    /\ last' = Op("midi_event_zyncoders", midi_chan, 0)
    /\ script' = [j \in EncIdx |-> ScriptIdle(script[j].on)]
    /\ watch' = [j \in EncIdx |-> WatchSpoiled(watch[j])]
    /\ UNCHANGED <<now, calls, zynswitches, pressed, uart, fault, oob>>

(***************************************************************************)
(* The same handlers taken one shared-memory access at a time, for callers *)
(* on different threads: update_zyncoder runs on the interrupt thread,     *)
(* set_value_zyncoder on the caller's, midi_event_zyncoders on the MIDI    *)
(* router's, and none of them takes a lock.  calls holds the calls that    *)
(* are between two of their stores, the encoder array as it was when the   *)
(* first of two overlapping calls began (zs0), and the arguments of the    *)
(* transport-side call (T) and of the MIDI event (M) of that overlap.      *)
(* Each call is cut once, between its store to subvalue and its store to   *)
(* value; the build allows more interleavings than these.                  *)
(***************************************************************************)
TransportIdle == calls.update = <<>> /\ calls.set = <<>> /\ calls.send = <<>>

MidiIdle == calls.midi = <<>>

\* a transport-side call begins: alone, or over a MIDI event in progress
BeginTransport(d) ==
    IF MidiIdle THEN [NoCalls EXCEPT !.zs0 = <<zyncoders>>, !.T = <<d>>]
    ELSE [calls EXCEPT !.T = <<d>>]

\* a MIDI event begins: alone, or over a transport-side call in progress
BeginMidi(m) ==
    IF TransportIdle THEN [NoCalls EXCEPT !.zs0 = <<zyncoders>>, !.M = <<m>>]
    ELSE [calls EXCEPT !.M = <<m>>]

\* lines 645-655: the value update_zyncoder computes from the subvalue it stored
LocalValue(z, r, up, down) ==
    IF z.step = 0
    THEN IF up = 1 THEN r.z.subvalue \div ZYNCODER_TICKS_PER_RETENT
         ELSE IF down = 1
         THEN (r.z.subvalue + ZYNCODER_TICKS_PER_RETENT - 1) \div ZYNCODER_TICKS_PER_RETENT
         ELSE -1
    ELSE IF r.z.value # z.value THEN r.z.value ELSE -1

\* update_zyncoder, lines 586-656 (velocity mode) or the loads of lines
\* 664-667 (fixed-step mode): everything before the store to value
update_zyncoder_begin(i, MSB, LSB) ==
    /\ ~fault
    /\ TransportIdle
    /\ MidiIdle \/ calls.T = <<>>
    /\ zyncoders[i].enabled # 0
    /\ LET z == zyncoders[i]
           encoded == Encoded(MSB, LSB)
           sum == QuadSum(z.last_encoded, encoded)
           up == IF QuadUp(sum) THEN 1 ELSE 0
           down == IF QuadDown(sum) THEN 1 ELSE 0
           z1 == [z EXCEPT !.last_encoded = encoded]
           d == [op |-> "update", i |-> i, encoded |-> encoded, v |-> 0, t |-> now]
       IN  \E r \in Tick(z1, up, down, now) :
               LET value == LocalValue(z, r, up, down)
                   whole == ~r.accepted \/ r.fault \/ value < 0
               IN  /\ zyncoders' = [zyncoders EXCEPT ![i] = [r.z EXCEPT !.value = z.value]]
                   /\ fault' = r.fault
                   /\ calls' = [BeginTransport(d) EXCEPT !.update =
                                   IF whole THEN <<>> ELSE <<[i |-> i, value |-> value]>>]
                   /\ last' = [Op("update_zyncoder", i, 0) EXCEPT !.acc = r.accepted,
                                                                  !.dsval = r.dsval]
    /\ out' = <<>>
    /\ script' = [j \in EncIdx |-> IF j = i THEN ScriptIdle(script[j].on) ELSE script[j]]
    /\ watch' = [j \in EncIdx |-> IF j = i THEN WatchSpoiled(watch[j]) ELSE watch[j]]
    /\ UNCHANGED <<now, zynswitches, pressed, uart, oob>>

\* update_zyncoder, lines 657-661 (velocity mode) or the store of lines
\* 664-669 (fixed-step mode)
update_zyncoder_end ==
    /\ ~fault
    /\ calls.update # <<>>
    /\ LET c == calls.update[1]
           z == zyncoders[c.i]
           store == z.step # 0 \/ z.value # c.value
           z1 == IF store THEN [z EXCEPT !.value = c.value] ELSE z
       IN  /\ zyncoders' = [zyncoders EXCEPT ![c.i] = z1]
           /\ out' = IF store THEN send_zyncoder(z1) ELSE <<>>
           /\ last' = Op("update_zyncoder", c.i, 1)
    /\ calls' = [calls EXCEPT !.update = <<>>]
    /\ UNCHANGED <<now, zynswitches, pressed, uart, fault, oob, script, watch>>

\* update_zyncoder, lines 657-658 (velocity mode) or the store of lines
\* 664-669 (fixed-step mode) with the comparison next to it: the store to
\* value alone, the call of send_zyncoder still to come
update_zyncoder_store ==
    /\ ~fault
    /\ calls.update # <<>>
    /\ LET c == calls.update[1]
           z == zyncoders[c.i]
           store == z.step # 0 \/ z.value # c.value
       IN  /\ zyncoders' = [zyncoders EXCEPT ![c.i].value = IF store THEN c.value ELSE @]
           /\ calls' = [calls EXCEPT !.update = <<>>,
                                     !.send = IF store THEN <<c>> ELSE <<>>]
           /\ last' = Op("update_zyncoder", c.i, 1)
    /\ out' = <<>>
    /\ UNCHANGED <<now, zynswitches, pressed, uart, fault, oob, script, watch>>

\* update_zyncoder, line 659 or 668: send_zyncoder(i), which reads the
\* encoder's fields from memory (lines 556-580)
update_zyncoder_send ==
    /\ ~fault
    /\ calls.send # <<>>
    /\ out' = send_zyncoder(zyncoders[calls.send[1].i])
    /\ last' = Op("update_zyncoder", calls.send[1].i, 2)
    /\ calls' = [calls EXCEPT !.send = <<>>]
    /\ UNCHANGED <<now, zyncoders, zynswitches, pressed, uart, fault, oob, script, watch>>

\* set_value_zyncoder, lines 770-779 (velocity mode: the store to subvalue)
\* or the whole call (fixed-step mode, one store)
set_value_zyncoder_begin(i, v, send) ==
    /\ ~fault
    /\ TransportIdle
    /\ MidiIdle \/ calls.T = <<>>
    /\ zyncoders[i].enabled # 0
    /\ LET z == zyncoders[i]
           z1 == SetValueRecord(z, v)
           d == [op |-> "set", i |-> i, encoded |-> 0, v |-> v, t |-> now]
       IN  IF z.step = 0
           THEN /\ zyncoders' = [zyncoders EXCEPT ![i] = [z1 EXCEPT !.value = z.value]]
                /\ calls' = [BeginTransport(d) EXCEPT !.set = <<[i |-> i, send |-> send]>>]
                /\ out' = <<>>
           ELSE /\ zyncoders' = [zyncoders EXCEPT ![i] = z1]
                /\ calls' = BeginTransport(d)
                /\ out' = IF send # 0 THEN send_zyncoder(z1) ELSE <<>>
    /\ last' = Op("set_value_zyncoder", i, 0)
    /\ script' = [j \in EncIdx |-> IF j = i THEN ScriptIdle(script[j].on) ELSE script[j]]
    /\ watch' = [j \in EncIdx |-> IF j = i THEN WatchSpoiled(watch[j]) ELSE watch[j]]
    /\ UNCHANGED <<now, zynswitches, pressed, uart, fault, oob>>

\* set_value_zyncoder, lines 780 and 785: value from the subvalue in memory
set_value_zyncoder_end ==
    /\ ~fault
    /\ calls.set # <<>>
    /\ LET c == calls.set[1]
           z == zyncoders[c.i]
           z1 == [z EXCEPT !.value = z.subvalue \div ZYNCODER_TICKS_PER_RETENT]
       IN  /\ zyncoders' = [zyncoders EXCEPT ![c.i] = z1]
           /\ out' = IF c.send # 0 THEN send_zyncoder(z1) ELSE <<>>
           /\ last' = Op("set_value_zyncoder", c.i, 1)
    /\ calls' = [calls EXCEPT !.set = <<>>]
    /\ UNCHANGED <<now, zynswitches, pressed, uart, fault, oob, script, watch>>

\* lines 546-548: the next encoder, from j on, bound to the controller
NextBound(zs, j, midi_chan, midi_ctrl) ==
    LET S == {k \in EncIdx : /\ k >= j
                             /\ zs[k].enabled # 0
                             /\ zs[k].midi_chan = midi_chan
                             /\ zs[k].midi_ctrl = midi_ctrl}
    IN  IF S = {} THEN MAX_NUM_ZYNCODERS ELSE CHOOSE k \in S : \A m \in S : k <= m

\* midi_event_zyncoders, lines 544-549: the scan up to the first store to value
midi_event_zyncoders_begin(midi_chan, midi_ctrl, val) ==
    /\ ~fault
    /\ MidiIdle
    /\ TransportIdle \/ calls.M = <<>>
    /\ LET k == NextBound(zyncoders, 0, midi_chan, midi_ctrl)
           m == [chan |-> midi_chan, ctrl |-> midi_ctrl, val |-> val]
       IN  IF k = MAX_NUM_ZYNCODERS
           THEN /\ UNCHANGED zyncoders
                /\ calls' = BeginMidi(m)
           ELSE /\ zyncoders' = [zyncoders EXCEPT ![k].value = val]
                /\ calls' = [BeginMidi(m) EXCEPT !.midi =
                                <<[chan |-> midi_chan, ctrl |-> midi_ctrl,
                                   val |-> val, j |-> k]>>]
    /\ out' = <<>>
    /\ last' = Op("midi_event_zyncoders", midi_chan, 0)
    /\ script' = [j \in EncIdx |-> ScriptIdle(script[j].on)]
    /\ watch' = [j \in EncIdx |-> WatchSpoiled(watch[j])]
    /\ UNCHANGED <<now, zynswitches, pressed, uart, fault, oob>>

\* midi_event_zyncoders, lines 550-553: the store to subvalue, and the scan
\* on to the next store to value or to the end
midi_event_zyncoders_end ==
    /\ ~fault
    /\ calls.midi # <<>>
    /\ LET c == calls.midi[1]
           zs1 == [zyncoders EXCEPT ![c.j].subvalue = c.val * ZYNCODER_TICKS_PER_RETENT]
           k == NextBound(zs1, c.j + 1, c.chan, c.ctrl)
       IN  IF k = MAX_NUM_ZYNCODERS
           THEN /\ zyncoders' = zs1
                /\ calls' = [calls EXCEPT !.midi = <<>>]
           ELSE /\ zyncoders' = [zs1 EXCEPT ![k].value = c.val]
                /\ calls' = [calls EXCEPT !.midi = <<[c EXCEPT !.j = k]>>]
    /\ out' = <<>>
    /\ last' = Op("midi_event_zyncoders", calls.midi[1].chan, 1)
    /\ UNCHANGED <<now, zynswitches, pressed, uart, fault, oob, script, watch>>

\* what a transport-side call, run alone and whole, leaves in the array
TransportResults(zs, d) ==
    IF zs[d.i].enabled = 0 THEN {zs}
    ELSE IF d.op = "update"
    THEN LET z == zs[d.i]
             sum == QuadSum(z.last_encoded, d.encoded)
             up == IF QuadUp(sum) THEN 1 ELSE 0
             down == IF QuadDown(sum) THEN 1 ELSE 0
             z1 == [z EXCEPT !.last_encoded = d.encoded]
         IN  {[zs EXCEPT ![d.i] = r.z] : r \in {x \in Tick(z1, up, down, d.t) : ~x.fault}}
    ELSE {[zs EXCEPT ![d.i] = SetValueRecord(zs[d.i], d.v)]}

\* the arrays two calls leave when one runs after the other, or only one runs
SerialOutcomes(zs0, d, m) ==
    LET afterM == MidiEventArray(zs0, m.chan, m.ctrl, m.val)
    IN  TransportResults(zs0, d)
        \cup {afterM}
        \cup {MidiEventArray(x, m.chan, m.ctrl, m.val) : x \in TransportResults(zs0, d)}
        \cup TransportResults(afterM, d)

\* the fields both paths store to
Stored(zs) == [j \in EncIdx |-> <<zs[j].value, zs[j].subvalue>>]

(***************************************************************************)
(* Switches.  A pulled-up GPIO switch reads 0 while held and 1 when        *)
(* released; the UART build times the opposite levels.                     *)
(***************************************************************************)

\* send_zynswitch_midi, lines 281-344 (without ZYNAPTIK_CONFIG): the messages
\* the value sent on release and 0 on press
SwitchMidiVal_swapped(sw, status) == IF status = 0 THEN 0 ELSE sw.midi_val

\* lines 284-286
SwitchMidiVal(sw, status) == IF status = 0 THEN sw.midi_val ELSE 0

send_zynswitch_midi(sw, status) ==
    IF sw.midi_type = "CTRL_CHANGE"
    THEN << Msg("internal_send_ccontrol_change", "", sw.midi_chan, sw.midi_num,
                SwitchMidiVal(sw, status)),
            Msg("write_zynmidi_ccontrol_change", "", sw.midi_chan, sw.midi_num,
                SwitchMidiVal(sw, status)) >>
    ELSE IF sw.midi_type = "NOTE_ON"
    THEN IF status = 0
         THEN << Msg("internal_send_note_on", "", sw.midi_chan, sw.midi_num, sw.midi_val),
                 Msg("write_zynmidi_note_on", "", sw.midi_chan, sw.midi_num, sw.midi_val) >>
         ELSE << Msg("internal_send_note_off", "", sw.midi_chan, sw.midi_num, 0),
                 Msg("write_zynmidi_note_off", "", sw.midi_chan, sw.midi_num, 0) >>
    ELSE IF sw.midi_type = "PROG_CHANGE" /\ status = 0
    THEN << Msg("internal_send_program_change", "", sw.midi_chan, sw.midi_num, 0),
            Msg("write_zynmidi_program_change", "", sw.midi_chan, sw.midi_num, 0) >>
    ELSE <<>>

\* line 290: a control change of a switch is fed to the encoders
SwitchMidiEncoders(zs, sw, status) ==
    IF sw.midi_type = "CTRL_CHANGE"
    THEN MidiEventArray(zs, sw.midi_chan, sw.midi_num, SwitchMidiVal(sw, status))
    ELSE zs

\* every interval recorded, however short
UpdateSwitchRecord_nodebounce(sw, status, t) ==
    LET s1 == [sw EXCEPT !.status = status]
    IN  IF status = 1
        THEN IF sw.tsus > 0
             THEN [s1 EXCEPT !.tsus = 0, !.dtus = uint(t - sw.tsus)]
             ELSE s1
        ELSE [s1 EXCEPT !.tsus = t]

\* update_zynswitch, lines 361-380, for a level that differs from status: the
\* record afterwards
UpdateSwitchRecord(sw, status, t) ==
    LET s1 == [sw EXCEPT !.status = status]
    IN  IF status = 1
        THEN IF sw.tsus > 0
             THEN IF uint(t - sw.tsus) < 1000
                  THEN [s1 EXCEPT !.tsus = 0]
                  ELSE [s1 EXCEPT !.tsus = 0, !.dtus = uint(t - sw.tsus)]
             ELSE s1
        ELSE [s1 EXCEPT !.tsus = t]

\* the observer of press edges: a GPIO switch is held while it reads 0
PressedAfter(status, t) == IF status = 0 THEN t ELSE 0

\* update_zynswitch(i, status), lines 349-381; status is the level the port
\* expander ISR passes, or the level digitalRead returns in the MCP23008 build
update_zynswitch(i, status) ==
    /\ ~fault
    /\ IF i >= MAX_NUM_ZYNSWITCHES \/ zynswitches[i].enabled = 0
          \/ status = zynswitches[i].status
       THEN /\ UNCHANGED <<zyncoders, zynswitches, pressed, script, watch>>
            /\ out' = <<>>
       ELSE /\ zynswitches' = [zynswitches EXCEPT ![i] =
                                  UpdateSwitchRecord(zynswitches[i], status, now)]
            /\ zyncoders' = SwitchMidiEncoders(zyncoders, zynswitches[i], status)
            /\ out' = send_zynswitch_midi(zynswitches[i], status)
            /\ pressed' = [pressed EXCEPT ![i] = PressedAfter(status, now)]
            /\ script' = IF zyncoders' = zyncoders THEN script
                         ELSE [j \in EncIdx |-> ScriptIdle(script[j].on)]
            /\ watch' = IF zyncoders' = zyncoders THEN watch
                        ELSE [j \in EncIdx |-> WatchSpoiled(watch[j])]
    /\ last' = Op("update_zynswitch", i, 0)
    /\ UNCHANGED <<now, calls, fault, oob, uart>>

\* setup_zynswitch, lines 457-489.  In the UART build it touches no hardware;
\* in the MCP23008 build a switch on a native pin (0 < pin < MCP23008_BASE_PIN)
\* is read once, by update_zynswitch(i), level being what digitalRead returns.
MCP23008_BASE_PIN == 100

SetupSwitchRecord(sw, pin) ==
    [sw EXCEPT !.enabled = 1, !.pin = pin, !.tsus = 0, !.dtus = 0, !.status = 0]

setup_zynswitch(build, i, pin, level) ==
    /\ ~fault
    /\ IF i >= MAX_NUM_ZYNSWITCHES
       THEN /\ UNCHANGED <<zyncoders, zynswitches, pressed, script, watch>>
            /\ out' = <<>>
            /\ last' = Op("setup_zynswitch", i, 0)
       ELSE LET sw == SetupSwitchRecord(zynswitches[i], pin)
                read == build = "MCP23008" /\ pin > 0 /\ pin < MCP23008_BASE_PIN
                        /\ level # sw.status
            IN  /\ zynswitches' = [zynswitches EXCEPT ![i] =
                       IF read THEN UpdateSwitchRecord(sw, level, now) ELSE sw]
                /\ zyncoders' = IF read THEN SwitchMidiEncoders(zyncoders, sw, level)
                                ELSE zyncoders
                /\ out' = IF read THEN send_zynswitch_midi(sw, level) ELSE <<>>
                /\ pressed' = [pressed EXCEPT ![i] = 0]
                /\ script' = IF zyncoders' = zyncoders THEN script
                             ELSE [j \in EncIdx |-> ScriptIdle(script[j].on)]
                /\ watch' = IF zyncoders' = zyncoders THEN watch
                            ELSE [j \in EncIdx |-> WatchSpoiled(watch[j])]
                /\ last' = Op("setup_zynswitch", i, 1)
    /\ UNCHANGED <<now, calls, fault, oob, uart>>

\* setup_zynswitch_midi, lines 491-514 (without ZYNAPTIK_CONFIG)
setup_zynswitch_midi(i, midi_evt, midi_chan, midi_num, midi_val) ==
    /\ ~fault
    /\ IF i >= MAX_NUM_ZYNSWITCHES
       THEN /\ UNCHANGED zynswitches
            /\ last' = Op("setup_zynswitch_midi", i, 0)
       ELSE /\ zynswitches' = [zynswitches EXCEPT ![i] =
                   [@ EXCEPT !.midi_type = midi_evt, !.midi_chan = midi_chan,
                             !.midi_num = midi_num, !.midi_val = midi_val]]
            /\ last' = Op("setup_zynswitch_midi", i, 1)
    /\ out' = <<>>
    /\ UNCHANGED <<now, calls, zyncoders, fault, oob, script, watch, pressed, uart>>

\* a pending duration left where it is while the press in progress is reported
GetDtus_elapsed_first(sw, long_dtus, t) ==
    IF sw.tsus > 0 /\ uint(t - sw.tsus) > long_dtus
    THEN [sw |-> [sw EXCEPT !.tsus = 0], ret |-> uint(t - sw.tsus)]
    ELSE IF sw.dtus > 0 THEN [sw |-> [sw EXCEPT !.dtus = 0], ret |-> sw.dtus]
    ELSE [sw |-> sw, ret |-> 0]

\* get_zynswitch_dtus, lines 516-534: the record afterwards and the value
\* returned
GetDtus(sw, long_dtus, t) ==
    IF sw.dtus > 0 THEN [sw |-> [sw EXCEPT !.dtus = 0], ret |-> sw.dtus]
    ELSE IF sw.tsus > 0 /\ uint(t - sw.tsus) > long_dtus
    THEN [sw |-> [sw EXCEPT !.tsus = 0], ret |-> uint(t - sw.tsus)]
    ELSE [sw |-> sw, ret |-> 0]

get_zynswitch_dtus(i, long_dtus) ==
    /\ ~fault
    /\ IF i >= MAX_NUM_ZYNSWITCHES
       THEN /\ UNCHANGED zynswitches
            /\ last' = Op("get_zynswitch_dtus", i, 0)
       ELSE LET r == GetDtus(zynswitches[i], long_dtus, now)
            IN  /\ zynswitches' = [zynswitches EXCEPT ![i] = r.sw]
                /\ last' = Op("get_zynswitch_dtus", i, r.ret)
    /\ out' = <<>>
    /\ UNCHANGED <<now, calls, zyncoders, fault, oob, script, watch, pressed, uart>>

\* get_zynswitch, lines 536-538
get_zynswitch(i, long_dtus) == get_zynswitch_dtus(i, long_dtus)

(***************************************************************************)
(* MCP23008 build: the switches on expanded pins (pin >= 100) have no      *)
(* interrupt; a thread polls them every poll_zynswitches_us.               *)
(***************************************************************************)

\* update_expanded_zynswitches, lines 413-426, for a level that differs from
\* status: the record afterwards, and whether the function returns there
PolledSwitchRecord(sw, status, t) ==
    [sw |-> UpdateSwitchRecord(sw, status, t),
     stop |-> status = 1 /\ sw.tsus > 0 /\ uint(t - sw.tsus) < 1000]

\* update_expanded_zynswitches, lines 409-427: the loop from switch i on,
\* levels[i] being what digitalRead returns for the pin of switch i
RECURSIVE PolledSwitchesFrom(_, _, _, _)
PolledSwitchesFrom(st, i, levels, t) ==
    IF i >= MAX_NUM_ZYNSWITCHES THEN st
    ELSE LET sw == st.sws[i]
             status == levels[i]
         IN  IF sw.enabled = 0 \/ sw.pin < 100 \/ status = sw.status
             THEN PolledSwitchesFrom(st, i + 1, levels, t)
             ELSE LET r == PolledSwitchRecord(sw, status, t)
                      st1 == [zs |-> SwitchMidiEncoders(st.zs, sw, status),
                              sws |-> [st.sws EXCEPT ![i] = r.sw],
                              out |-> st.out \o send_zynswitch_midi(sw, status),
                              pressed |-> [st.pressed EXCEPT ![i] =
                                              PressedAfter(status, t)]]
                  IN  IF r.stop THEN st1
                      ELSE PolledSwitchesFrom(st1, i + 1, levels, t)

\* one pass of poll_zynswitches, lines 429-435
update_expanded_zynswitches(levels) ==
    /\ ~fault
    /\ LET st == PolledSwitchesFrom([zs |-> zyncoders, sws |-> zynswitches, out |-> <<>>,
                                     pressed |-> pressed], 0, levels, now)
       IN  /\ zyncoders' = st.zs
           /\ zynswitches' = st.sws
           /\ out' = st.out
           /\ pressed' = st.pressed
    /\ last' = Op("update_expanded_zynswitches", 0, 0)
    /\ script' = IF zyncoders' = zyncoders THEN script
                 ELSE [j \in EncIdx |-> ScriptIdle(script[j].on)]
    /\ watch' = IF zyncoders' = zyncoders THEN watch
                ELSE [j \in EncIdx |-> WatchSpoiled(watch[j])]
    /\ UNCHANGED <<now, calls, fault, oob, uart>>

(***************************************************************************)
(* MCP23017 build: the port expander with two banks of eight pins.  Its    *)
(* interrupt handler reads one bank and feeds every encoder and switch on  *)
(* it whose level differs from the one it saw last.                        *)
(***************************************************************************)
MCP23017_BASE_PIN == 100

\* bitRead(reg, bit), line 104, for a uint8_t reg promoted to int: bits 8 to
\* 31 are 0 and a shift by 32 or more is undefined, stray being what it gives
BitRead(reg, bit, stray) ==
    IF bit < 8 THEN (reg \div (2 ^ bit)) % 2
    ELSE IF bit < 32 THEN 0
    ELSE stray

InBank(pin, pin_min) == pin >= pin_min /\ pin <= pin_min + 7

\* lines 820-841: the loop over the encoders from encoder i on; the outcomes,
\* the process stopping where a tick traps
RECURSIVE McpEncodersFrom(_, _, _, _, _, _)
McpEncodersFrom(zs, i, pin_min, reg, t, stray) ==
    IF i >= MAX_NUM_ZYNCODERS THEN {[zs |-> zs, out |-> <<>>, fault |-> FALSE]}
    ELSE LET z == zs[i]
             state_a == BitRead(reg, uint8(z.pin_a - pin_min), stray)
             state_b == BitRead(reg, uint8(z.pin_b - pin_min), stray)
             encoded == Encoded(state_a, state_b)
             sum == QuadSum(z.last_encoded, encoded)
             up == IF QuadUp(sum) THEN 1 ELSE 0
             down == IF QuadDown(sum) THEN 1 ELSE 0
             sent(r) == IF r.sent THEN send_zyncoder(r.z) ELSE <<>>
             seen(r) == [r.z EXCEPT !.pin_a_last_state = state_a,
                                    !.pin_b_last_state = state_b]
         IN  IF \/ z.enabled = 0
                \/ ~(InBank(z.pin_a, pin_min) \/ InBank(z.pin_b, pin_min))
                \/ (state_a = z.pin_a_last_state /\ state_b = z.pin_b_last_state)
             THEN McpEncodersFrom(zs, i + 1, pin_min, reg, t, stray)
             ELSE UNION { IF r.fault
                          THEN {[zs |-> [zs EXCEPT ![i] = r.z], out |-> sent(r),
                                 fault |-> TRUE]}
                          ELSE {[rest EXCEPT !.out = sent(r) \o rest.out] :
                                   rest \in McpEncodersFrom([zs EXCEPT ![i] = seen(r)],
                                                            i + 1, pin_min, reg, t, stray)}
                          : r \in Tick([z EXCEPT !.last_encoded = encoded], up, down, t) }

\* lines 842-858: the loop over the switches from switch i on
RECURSIVE McpSwitchesFrom(_, _, _, _, _, _)
McpSwitchesFrom(st, i, pin_min, reg, t, stray) ==
    IF i >= MAX_NUM_ZYNSWITCHES THEN st
    ELSE LET sw == st.sws[i]
             state == BitRead(reg, uint8(sw.pin - pin_min), stray)
         IN  IF sw.enabled = 0 \/ ~InBank(sw.pin, pin_min) \/ state = sw.status
             THEN McpSwitchesFrom(st, i + 1, pin_min, reg, t, stray)
             ELSE McpSwitchesFrom(
                      [st EXCEPT !.zs = SwitchMidiEncoders(st.zs, sw, state),
                                 !.sws = [st.sws EXCEPT ![i] =
                                             UpdateSwitchRecord(sw, state, t)],
                                 !.out = st.out \o send_zynswitch_midi(sw, state),
                                 !.pressed = [st.pressed EXCEPT ![i] =
                                                 PressedAfter(state, t)]],
                      i + 1, pin_min, reg, t, stray)

\* zyncoder_mcp23017_ISR, lines 794-859, on the state st, reg being what the
\* bank's GPIO register reads: the outcomes
McpISR(st, bank, reg, t, stray) ==
    LET pin_min == IF bank = 0 THEN MCP23017_BASE_PIN ELSE MCP23017_BASE_PIN + 8
    IN  { IF e.fault
          THEN [st EXCEPT !.zs = e.zs, !.out = st.out \o e.out, !.fault = TRUE]
          ELSE McpSwitchesFrom([st EXCEPT !.zs = e.zs, !.out = st.out \o e.out],
                               0, pin_min, reg, t, stray)
          : e \in McpEncodersFrom(st.zs, 0, pin_min, reg, t, stray) }

\* zyncoder_mcp23017_bankA_ISR and then zyncoder_mcp23017_bankB_ISR, lines
\* 150-155 and 752-753
McpBothBanks(st, regA, regB, t, stray) ==
    UNION { IF a.fault THEN {a} ELSE McpISR(a, 1, regB, t, stray)
            : a \in McpISR(st, 0, regA, t, stray) }

\* the interrupt of one bank
zyncoder_mcp23017_ISR(bank, reg, stray) ==
    /\ ~fault
    /\ \E st \in McpISR([zs |-> zyncoders, sws |-> zynswitches, out |-> <<>>,
                          pressed |-> pressed, fault |-> FALSE],
                         bank, reg, now, stray) :
          /\ zyncoders' = st.zs
          /\ zynswitches' = st.sws
          /\ out' = st.out
          /\ pressed' = st.pressed
          /\ fault' = st.fault
    /\ last' = Op("zyncoder_mcp23017_ISR", bank, reg)
    /\ script' = IF zyncoders' = zyncoders THEN script
                 ELSE [j \in EncIdx |-> ScriptIdle(script[j].on)]
    /\ watch' = IF zyncoders' = zyncoders THEN watch
                ELSE [j \in EncIdx |-> WatchSpoiled(watch[j])]
    /\ UNCHANGED <<now, calls, oob, uart>>

\* setup_zyncoder of the MCP23017 build, lines 696-763: where the encoder was
\* disabled or its pins change, and the two pins differ, it ends with the
\* handlers of both banks, regA and regB being what the banks read
setup_zyncoder_MCP23017(i, pin_a, pin_b, midi_chan, midi_ctrl, osc, value, max_value, step, regA, regB, stray) ==
    /\ ~fault
    /\ IF i > MAX_NUM_ZYNCODERS
       THEN /\ UNCHANGED <<zyncoders, zynswitches, pressed, fault, oob>>
            /\ out' = <<>>
            /\ last' = Op("setup_zyncoder", i, 0)
       ELSE IF i = MAX_NUM_ZYNCODERS
       THEN /\ oob' = TRUE
            /\ UNCHANGED <<zyncoders, zynswitches, pressed, fault>>
            /\ out' = <<>>
            /\ last' = Op("setup_zyncoder", i, 1)
       ELSE LET z == zyncoders[i]
                z1 == SetupRecord(z, pin_a, pin_b, midi_chan, midi_ctrl, osc,
                                  value, max_value, step)
                st == [zs |-> [zyncoders EXCEPT ![i] = z1], sws |-> zynswitches,
                       out |-> <<>>, pressed |-> pressed, fault |-> FALSE]
                banks == /\ z.enabled = 0 \/ z.pin_a # pin_a \/ z.pin_b # pin_b
                         /\ pin_a # pin_b
            IN  /\ \E r \in IF banks THEN McpBothBanks(st, regA, regB, now, stray)
                              ELSE {st} :
                      /\ zyncoders' = r.zs
                      /\ zynswitches' = r.sws
                      /\ out' = r.out
                      /\ pressed' = r.pressed
                      /\ fault' = r.fault
                /\ UNCHANGED oob
                /\ last' = Op("setup_zyncoder", i, 1)
    /\ script' = [j \in EncIdx |-> ScriptIdle(script[j].on)]
    /\ watch' = [j \in EncIdx |->
                    IF j = i THEN WatchIdle(watch[j].mode, zyncoders'[j])
                    ELSE WatchSpoiled(watch[j])]
    /\ UNCHANGED <<now, calls, uart>>

(***************************************************************************)
(* UART build: the reader thread.  Each pass of its loop takes one byte    *)
(* from the serial line, looks for a frame and sleeps 1000 us.             *)
(***************************************************************************)

\* the bit of the payload a pin stands for, lines 609-610 and 876; a pin past
\* the payload reads memory next to it, which holds stray
PayloadBit(data, pin, stray) ==
    IF pin \div 8 < PAYLOAD_SIZE_BYTES
    THEN (data[(pin \div 8) + 1] \div (2 ^ (pin % 8))) % 2
    ELSE stray

Wrap(k) == IF k >= BUFFER_SIZE_BYTES THEN 0 ELSE k

\* insertInBuffer, lines 955-977
insertInBuffer(u, element) ==
    [u EXCEPT !.prev_head = u.head,
              !.buffer = [u.buffer EXCEPT ![u.head] = element],
              !.head = Wrap(u.head + 1),
              !.tail = IF u.elementsInBuffer >= BUFFER_SIZE_BYTES
                       THEN Wrap(u.tail + 1) ELSE u.tail,
              !.elementsInBuffer = IF u.elementsInBuffer >= BUFFER_SIZE_BYTES
                                   THEN u.elementsInBuffer
                                   ELSE u.elementsInBuffer + 1]

\* checkFraming, lines 1021-1036: its result
checkFraming(u) ==
    /\ u.buffer[u.tail] = START_FRAME_VALUE
    /\ u.buffer[u.prev_head] = END_FRAME_VALUE
    /\ u.elementsInBuffer >= BUFFER_SIZE_BYTES

\* getBufferData, lines 979-1006: the bytes it looks at, in order
BufferData(u) ==
    [cnt \in 1 .. PAYLOAD_SIZE_BYTES |->
        u.buffer[IF u.head + cnt >= BUFFER_SIZE_BYTES
                 THEN (u.head + cnt) - BUFFER_SIZE_BYTES
                 ELSE u.head + cnt]]

\* getBufferData looking for the frame markers only
Corrupt_markers(data) ==
    \E cnt \in 1 .. PAYLOAD_SIZE_BYTES :
        data[cnt] \in {START_FRAME_VALUE, END_FRAME_VALUE}

\* getBufferData returns 1
Corrupt(data) ==
    \E cnt \in 1 .. PAYLOAD_SIZE_BYTES :
        data[cnt] \in {START_FRAME_VALUE, END_FRAME_VALUE, 255}

\* update_zyncoder(i, data) of the UART build for i, i+1, ..., lines 925-928
\* with 586-671: the outcomes, the process stopping where a tick traps
RECURSIVE UartEncodersFrom(_, _, _, _, _)
UartEncodersFrom(zs, i, data, t, stray) ==
    IF i >= MAX_NUM_ZYNCODERS THEN {[zs |-> zs, out |-> <<>>, fault |-> FALSE]}
    ELSE IF zs[i].enabled = 0 THEN UartEncodersFrom(zs, i + 1, data, t, stray)
    ELSE LET down == PayloadBit(data, zs[i].pin_a, stray)
             up == PayloadBit(data, zs[i].pin_b, stray)
             sent(r) == IF r.sent THEN send_zyncoder(r.z) ELSE <<>>
         IN  UNION { IF r.fault
                     THEN {[zs |-> [zs EXCEPT ![i] = r.z], out |-> sent(r), fault |-> TRUE]}
                     ELSE {[rest EXCEPT !.out = sent(r) \o rest.out] :
                              rest \in UartEncodersFrom([zs EXCEPT ![i] = r.z],
                                                        i + 1, data, t, stray)}
                     : r \in Tick(zs[i], up, down, t) }

\* update_zynswitches, lines 878-891, for a level that differs from status:
\* the record afterwards, and whether the function returns there
UartSwitchRecord(sw, status, t) ==
    LET s1 == [sw EXCEPT !.status = status]
    IN  IF status = 0
        THEN IF sw.tsus > 0
             THEN IF uint(t - sw.tsus) < 1000
                  THEN [sw |-> [s1 EXCEPT !.tsus = 0], stop |-> TRUE]
                  ELSE [sw |-> [s1 EXCEPT !.tsus = 0, !.dtus = uint(t - sw.tsus)],
                        stop |-> FALSE]
             ELSE [sw |-> s1, stop |-> FALSE]
        ELSE [sw |-> [s1 EXCEPT !.tsus = t], stop |-> FALSE]

\* update_zynswitches, lines 872-892: the loop from switch i on.  st holds the
\* encoders, the switches, the messages sent and the press edges seen.
RECURSIVE UartSwitchesFrom(_, _, _, _, _)
UartSwitchesFrom(st, i, data, t, stray) ==
    IF i >= MAX_NUM_ZYNSWITCHES THEN st
    ELSE LET sw == st.sws[i]
             status == PayloadBit(data, sw.pin, stray)
         IN  IF sw.enabled = 0 \/ status = sw.status
             THEN UartSwitchesFrom(st, i + 1, data, t, stray)
             ELSE LET r == UartSwitchRecord(sw, status, t)
                      st1 == [zs |-> SwitchMidiEncoders(st.zs, sw, status),
                              sws |-> [st.sws EXCEPT ![i] = r.sw],
                              out |-> st.out \o send_zynswitch_midi(sw, status),
                              pressed |-> [st.pressed EXCEPT ![i] =
                                              IF status = 1 THEN t ELSE 0]]
                  IN  IF r.stop THEN st1
                      ELSE UartSwitchesFrom(st1, i + 1, data, t, stray)

\* one pass of the loop of uart_thread, lines 908-939, serialGetchar having
\* returned element
uart_thread(element, stray) ==
    /\ ~fault
    /\ now >= uart.wake
    /\ LET u == insertInBuffer(uart, element)
           data == BufferData(u)
       IN  IF checkFraming(u) /\ ~Corrupt(data)
           THEN \E e \in UartEncodersFrom(zyncoders, 0, data, now, stray) :
                   LET st == IF e.fault
                             THEN [zs |-> e.zs, sws |-> zynswitches, out |-> e.out,
                                   pressed |-> pressed]
                             ELSE UartSwitchesFrom(
                                      [zs |-> e.zs, sws |-> zynswitches, out |-> e.out,
                                       pressed |-> pressed], 0, data, now, stray)
                   IN  /\ zyncoders' = st.zs
                       /\ zynswitches' = st.sws
                       /\ out' = st.out
                       /\ pressed' = st.pressed
                       /\ fault' = e.fault
                       /\ uart' = UartFlushed(now + 1000)
                       /\ last' = Op("uart_frame", data[1], data[2])
           ELSE /\ uart' = IF checkFraming(u) \/ u.elementsInBuffer < BUFFER_SIZE_BYTES
                           THEN [u EXCEPT !.wake = now + 1000]
                           ELSE UartFlushed(now + 1000)
                /\ out' = <<>>
                /\ last' = IF checkFraming(u)
                           THEN Op("uart_corrupt", data[1], data[2])
                           ELSE Op("uart_byte", element, 0)
                /\ UNCHANGED <<zyncoders, zynswitches, pressed, fault>>
    /\ watch' = IF zyncoders' = zyncoders THEN watch
                ELSE [j \in EncIdx |-> WatchSpoiled(watch[j])]
    /\ UNCHANGED <<now, calls, oob, script>>

(***************************************************************************)
(* The clock.  Operations read CLOCK_MONOTONIC; the model lets it move     *)
(* forward to any later instant of a fixed schedule.                       *)
(***************************************************************************)
ClockAdvance(t) ==
    /\ ~fault
    /\ t > now
    /\ now' = t
    /\ UNCHANGED <<zyncoders, zynswitches, pressed, uart, out, last, fault, oob, script,
                   watch, calls>>

(***************************************************************************)
(* Spec: one encoder (index 0) in the native-GPIO build, with the clock.   *)
(* Any thread may call the API at any time, for any index; the two pins    *)
(* are sampled at arbitrary levels.  The other entries of the array stay   *)
(* disabled.                                                               *)
(***************************************************************************)
Instants == {5000, 5999, 6999, 56999}

Bit == {0, 1}

SetupValues == {1, 9}

SetupMax == {5}

SetupSteps == {0, 1, 2}

SetupBindings == {[chan |-> 0, ctrl |-> 7, osc |-> "null"],
                  [chan |-> 0, ctrl |-> 0, osc |-> "path"]}

SetValues == {0, 3, 9}

MidiChans == {0, 1}

MidiCtrls == {7}

MidiVals == {2, 100}

Init ==
    /\ init_zyncoder
    /\ now = 5000
    /\ \A i \in EncIdx : ~script[i].on /\ watch[i].mode = "off"

SetupEncoder ==
    \E bind \in SetupBindings, value \in SetupValues,
       max_value \in SetupMax, step \in SetupSteps :
        setup_zyncoder(0, 25, 27, bind.chan, bind.ctrl, bind.osc, value, max_value, step)

UpdateEncoder == \E i \in EncIdx, MSB \in Bit, LSB \in Bit : update_zyncoder(i, MSB, LSB)

SetValue == \E i \in EncIdx, v \in SetValues, send \in Bit : set_value_zyncoder(i, v, send)

GetValue == \E i \in EncIdx : get_value_zyncoder(i)

MidiEvent ==
    \E chan \in MidiChans, ctrl \in MidiCtrls, val \in MidiVals :
        midi_event_zyncoders(chan, ctrl, val)

Clock == \E t \in Instants : ClockAdvance(t)

Next ==
    \/ SetupEncoder
    \/ UpdateEncoder
    \/ SetValue
    \/ GetValue
    \/ MidiEvent
    \/ Clock

Spec == Init /\ [][Next]_vars

(***************************************************************************)
(* SpecPair: every encoder of the array set up, bound to the same or to    *)
(* different MIDI controllers, with the clock standing still.              *)
(***************************************************************************)
PairBindings == {[chan |-> 0, ctrl |-> 7, osc |-> "null"],
                 [chan |-> 1, ctrl |-> 7, osc |-> "null"]}

PairSteps == {0, 1}

PairSetup ==
    \E i \in EncIdx, bind \in PairBindings, step \in PairSteps :
        setup_zyncoder(i, 25, 27, bind.chan, bind.ctrl, bind.osc, 1, 5, step)

PairUpdate == \E i \in EncIdx, MSB \in Bit : update_zyncoder(i, MSB, 0)

PairSetValue == \E i \in EncIdx : set_value_zyncoder(i, 3, 1)

PairNext ==
    \/ PairSetup
    \/ PairUpdate
    \/ PairSetValue
    \/ GetValue
    \/ MidiEvent

SpecPair == Init /\ [][PairNext]_vars

(***************************************************************************)
(* SpecSwitch: the MCP23008 build's native switches, pressed, released and *)
(* queried at a few instants, with one fixed-step encoder that a switch's  *)
(* control change can reach.                                               *)
(***************************************************************************)
SwitchInstants == {5000, 5500, 7000, 10000}

LongDtus == {1500}

SwitchEvents == {"CTRL_CHANGE", "NOTE_ON"}

SwitchSetup ==
    \E i \in 0 .. MAX_NUM_ZYNSWITCHES, level \in Bit :
        setup_zynswitch("MCP23008", i, 23 + i, level)

SwitchSetupMidi ==
    \E midi_evt \in SwitchEvents : setup_zynswitch_midi(0, midi_evt, 0, 7, 3)

\* encoder 0 bound to the controller of the switch, the others to their own
SwitchSetupEncoder ==
    \E i \in EncIdx, step \in PairSteps :
        /\ i > 0 => step = 1
        /\ setup_zyncoder(i, 25, 27, 0, 7 + i, "null", 1, 5, step)

SwitchUpdate == \E i \in SwIdx, status \in Bit : update_zynswitch(i, status)

SwitchGet == \E i \in SwIdx, long_dtus \in LongDtus : get_zynswitch_dtus(i, long_dtus)

SwitchClock == \E t \in SwitchInstants : ClockAdvance(t)

SwitchNext ==
    \/ SwitchSetup
    \/ SwitchSetupMidi
    \/ SwitchSetupEncoder
    \/ SwitchUpdate
    \/ SwitchGet
    \/ SwitchClock

SpecSwitch == Init /\ [][SwitchNext]_vars

(***************************************************************************)
(* SpecUart: the UART build.  Two switches on bits 0 and 1 of the first    *)
(* payload byte, a fixed-step encoder on bits 0 and 1 of the second, bytes *)
(* arriving one per millisecond, and a second run of instants half a       *)
(* millisecond past one wrap of the unsigned int range later.              *)
(***************************************************************************)
UartInstants ==
    {5000 + (k * 1000) : k \in 0 .. 3} \cup {UINT_RANGE + 5500 + (k * 1000) : k \in 0 .. 3}

UartBytes == {START_FRAME_VALUE, END_FRAME_VALUE, 0, 3, 255}

UartSetupSwitch == \E i \in SwIdx : setup_zynswitch("UART", i, i, 0)

UartSetupEncoder == setup_zyncoder(0, 8, 9, 0, 7, "null", 1, 5, 1)

UartByte == \E element \in UartBytes, stray \in Bit : uart_thread(element, stray)

UartClock == \E t \in UartInstants : ClockAdvance(t)

UartNext ==
    \/ UartSetupSwitch
    \/ UartSetupEncoder
    \/ UartByte
    \/ UartClock

SpecUart == Init /\ [][UartNext]_vars

(***************************************************************************)
(* SpecDetent: encoder 0 set up in either mode and turned, one observation *)
(* after the other, at instants 100 ms apart (the first 5 ms after the     *)
(* clock's origin, so that the first step is a fast one; the clock moves   *)
(* on once a tick has been taken at the present instant), with the         *)
(* observer of DetentScript running.                                       *)
(***************************************************************************)
DetentGap == 100000

DetentInstants == {5000 + (k * DetentGap) : k \in 0 .. 8}

DetentValues == {0, 1}

DetentMax == {4}

DetentSteps == {0, 1}

DetentInit ==
    /\ init_zyncoder
    /\ now = 5000
    /\ \A i \in EncIdx : script[i].on /\ watch[i].mode = "off"

DetentSetup ==
    \E value \in DetentValues, max_value \in DetentMax, step \in DetentSteps :
        setup_zyncoder(0, 25, 27, 0, 7, "null", value, max_value, step)

DetentUpdate == \E MSB \in Bit, LSB \in Bit : update_zyncoder(0, MSB, LSB)

DetentClock ==
    \E t \in DetentInstants :
        /\ t <= now + DetentGap
        /\ now = 5000 \/ zyncoders[0].tsus = now
        /\ ClockAdvance(t)

DetentNext ==
    \/ DetentSetup
    \/ DetentUpdate
    \/ DetentClock

SpecDetent == DetentInit /\ [][DetentNext]_vars

(***************************************************************************)
(* SpecCadence: one velocity-mode encoder ticked at instants whose gaps    *)
(* run from under the debounce time to nearly the whole range of the       *)
(* unsigned microsecond clock.                                             *)
(***************************************************************************)
CadenceInstants == {5000, 5500, 47000, 1000000, UINT_RANGE + 2}

CadenceValues == {1, 3}

CadenceSetup ==
    \E value \in CadenceValues : setup_zyncoder(0, 25, 27, 0, 7, "null", value, 5, 0)

CadenceUpdate == \E MSB \in Bit, LSB \in Bit : update_zyncoder(0, MSB, LSB)

CadenceClock == \E t \in CadenceInstants : ClockAdvance(t)

CadenceNext ==
    \/ CadenceSetup
    \/ CadenceUpdate
    \/ CadenceClock

SpecCadence == Init /\ [][CadenceNext]_vars

(***************************************************************************)
(* SpecRange: the setup and query operations called with indices inside    *)
(* the arrays, equal to their capacity and past it.                        *)
(***************************************************************************)
EncProbes == {0, MAX_NUM_ZYNCODERS, MAX_NUM_ZYNCODERS + 1}

SwProbes == {0, MAX_NUM_ZYNSWITCHES, MAX_NUM_ZYNSWITCHES + 1}

RangeSetupEncoder ==
    \E i \in EncProbes, value \in SetupValues, step \in PairSteps :
        setup_zyncoder(i, 25, 27, 0, 7, "null", value, 5, step)

RangeGetValue == \E i \in EncProbes : get_value_zyncoder(i)

RangeSetValue == \E i \in EncProbes, v \in SetValues : set_value_zyncoder(i, v, 1)

RangeSetupSwitch == \E i \in SwProbes : setup_zynswitch("UART", i, 23, 0)

RangeSetupSwitchMidi ==
    \E i \in SwProbes, val \in MidiVals :
        setup_zynswitch_midi(i, "CTRL_CHANGE", 0, 7, val)

RangeGetSwitch == \E i \in SwProbes : get_zynswitch(i, 1500)

RangeNext ==
    \/ RangeSetupEncoder
    \/ RangeGetValue
    \/ RangeSetValue
    \/ RangeSetupSwitch
    \/ RangeSetupSwitchMidi
    \/ RangeGetSwitch

SpecRange == Init /\ [][RangeNext]_vars

(***************************************************************************)
(* SpecSlow: one fixed-step encoder on pins 0 and 1, bound to a MIDI       *)
(* controller, and the first pin pairs it is handed after its setup, with  *)
(* the observer of the first observations running.                        *)
(***************************************************************************)
SlowInstants == {5000, 7000, 8000, 9000, 11000, 13000}

SlowValues == {10, 100}

SlowSteps == {1, 2}

SlowInit ==
    /\ init_zyncoder
    /\ now = 5000
    /\ \A i \in EncIdx : ~script[i].on /\ watch[i].mode = "first"

SlowSetup ==
    \E value \in SlowValues, step \in SlowSteps :
        setup_zyncoder(0, 0, 1, 0, 7, "null", value, 100, step)

SlowUpdate == \E MSB \in Bit, LSB \in Bit : update_zyncoder(0, MSB, LSB)

SlowClock == \E t \in SlowInstants : ClockAdvance(t)

SlowNext ==
    \/ SlowSetup
    \/ SlowUpdate
    \/ SlowClock

SpecSlow == SlowInit /\ [][SlowNext]_vars

(***************************************************************************)
(* SpecBurst: one velocity-mode encoder with max_value 1000 turned at a    *)
(* tick every SlowGap microseconds, the burst starting 5 ms or 1 s after   *)
(* the clock's origin, with the observer of bursts running.                *)
(***************************************************************************)
BurstStarts == {5000, 1000000}

BurstInstants == {s + (k * SlowGap) : s \in BurstStarts, k \in 0 .. (BurstLen - 1)}

BurstValues == {0, 1}

BurstInit ==
    /\ init_zyncoder
    /\ now = 5000
    /\ \A i \in EncIdx : ~script[i].on /\ watch[i].mode = "burst"

\* the encoder is set up once
BurstSetup ==
    \E value \in BurstValues :
        /\ zyncoders[0].enabled = 0
        /\ setup_zyncoder(0, 25, 27, 0, 7, "null", value, 1000, 0)

BurstUpdate == \E MSB \in Bit, LSB \in Bit : update_zyncoder(0, MSB, LSB)

\* the clock moves by one gap, or on to a later start, while no burst is broken
BurstClock ==
    \E t \in BurstInstants :
        /\ t = now + SlowGap \/ t \in BurstStarts
        /\ watch[0].ok
        /\ ClockAdvance(t)

BurstNext ==
    \/ BurstSetup
    \/ BurstUpdate
    \/ BurstClock

SpecBurst == BurstInit /\ [][BurstNext]_vars

(***************************************************************************)
(* SpecSet: set_value_zyncoder on encoders bound to a MIDI controller, to  *)
(* an OSC path or to nothing, in both modes, with values below and above   *)
(* max_value and one whose product with ZYNCODER_TICKS_PER_RETENT does not *)
(* fit an unsigned int.                                                    *)
(***************************************************************************)
SetBindings == SetupBindings \cup {[chan |-> 0, ctrl |-> 0, osc |-> "null"]}

SetInputs == SetValues \cup {(UINT_RANGE \div ZYNCODER_TICKS_PER_RETENT) + 1}

SetSetup ==
    \E i \in EncIdx, bind \in SetBindings, step \in PairSteps :
        setup_zyncoder(i, 25, 27, bind.chan, bind.ctrl, bind.osc, 1, 5, step)

SetSetValue ==
    \E i \in EncIdx, v \in SetInputs, send \in Bit : set_value_zyncoder(i, v, send)

SetNext ==
    \/ SetSetup
    \/ SetSetValue
    \/ GetValue

SpecSet == Init /\ [][SetNext]_vars

(***************************************************************************)
(* SpecExpander: the MCP23017 build.  Encoder 0 is set up, and set up      *)
(* again, on pin pairs of bank A while the bank reads different levels,    *)
(* and the bank interrupt fires.                                           *)
(***************************************************************************)
ExpanderPins == {<<MCP23017_BASE_PIN, MCP23017_BASE_PIN + 1>>,
                 <<MCP23017_BASE_PIN + 2, MCP23017_BASE_PIN + 3>>}

ExpanderRegs == {0, 1, 3, 15}

ExpanderInstants == {5000, 5500, 9000}

ExpanderSetup ==
    \E pins \in ExpanderPins, step \in PairSteps, regA \in ExpanderRegs :
        setup_zyncoder_MCP23017(0, pins[1], pins[2], 0, 7, "null", 1, 5, step, regA, 0, 0)

ExpanderInterrupt ==
    \E bank \in Bit, reg \in ExpanderRegs : zyncoder_mcp23017_ISR(bank, reg, 0)

ExpanderClock == \E t \in ExpanderInstants : ClockAdvance(t)

ExpanderNext ==
    \/ ExpanderSetup
    \/ ExpanderInterrupt
    \/ ExpanderClock

SpecExpander == Init /\ [][ExpanderNext]_vars

(***************************************************************************)
(* SpecRace: encoder 0, bound to controller 7 of channel 0, with the       *)
(* interrupt thread, a set_value_zyncoder caller and the MIDI router each  *)
(* running their call one store at a time.                                 *)
(***************************************************************************)
RaceInstants == {5000, 7000}

RaceMidiValues == {0, 4}

RaceSetValues == {0, 3}

RaceSetup ==
    \E step \in PairSteps :
        /\ calls = NoCalls
        /\ zyncoders[0].enabled = 0
        /\ setup_zyncoder(0, 25, 27, 0, 7, "null", 1, 5, step)

RaceUpdateBegin == \E MSB \in Bit, LSB \in Bit : update_zyncoder_begin(0, MSB, LSB)

RaceSetBegin == \E v \in RaceSetValues, send \in Bit : set_value_zyncoder_begin(0, v, send)

RaceMidiBegin ==
    \E chan \in MidiChans, val \in RaceMidiValues : midi_event_zyncoders_begin(chan, 7, val)

RaceClock == \E t \in RaceInstants : ClockAdvance(t)

RaceNext ==
    \/ RaceSetup
    \/ RaceUpdateBegin
    \/ update_zyncoder_end
    \/ RaceSetBegin
    \/ set_value_zyncoder_end
    \/ RaceMidiBegin
    \/ midi_event_zyncoders_end
    \/ RaceClock

SpecRace == Init /\ [][RaceNext]_vars

(***************************************************************************)
(* SpecEmit: encoder 0 bound to controller 7 of channel 0; the interrupt   *)
(* thread runs update_zyncoder up to its store to value and then calls     *)
(* send_zyncoder, while the MIDI router runs midi_event_zyncoders.         *)
(***************************************************************************)
EmitSetup ==
    \E step \in PairSteps :
        /\ calls = NoCalls
        /\ zyncoders[0].enabled = 0
        /\ setup_zyncoder(0, 25, 27, 0, 7, "null", 1, 5, step)

EmitNext ==
    \/ EmitSetup
    \/ RaceUpdateBegin
    \/ update_zyncoder_store
    \/ update_zyncoder_send
    \/ RaceMidiBegin
    \/ midi_event_zyncoders_end
    \/ RaceClock

SpecEmit == Init /\ [][EmitNext]_vars

(***************************************************************************)
(* SpecNote: switches on the expanded pins 100 and 101 of the MCP23008     *)
(* build, each set up once while released; switch 0 is bound to note 60,   *)
(* once, and the poller reads the pins.  A switch that no pass of the      *)
(* poller has seen move since its setup is still released.                 *)
(***************************************************************************)
NoteSetup ==
    \E i \in SwIdx :
        /\ zynswitches[i].enabled = 0
        /\ setup_zynswitch("MCP23008", i, 100 + i, 1)

NoteBind ==
    /\ zynswitches[0].midi_type = "NONE_EVENT"
    /\ setup_zynswitch_midi(0, "NOTE_ON", 0, 60, 100)

\* no edge of switch i has been seen since setup_zynswitch
Unseen(i) ==
    /\ zynswitches[i].enabled # 0
    /\ zynswitches[i].status = 0
    /\ pressed[i] = 0

NotePoll ==
    \E levels \in [SwIdx -> Bit] :
        /\ \A i \in SwIdx : Unseen(i) => levels[i] = 1
        /\ update_expanded_zynswitches(levels)

NoteNext ==
    \/ NoteSetup
    \/ NoteBind
    \/ NotePoll
    \/ SwitchGet
    \/ SwitchClock

SpecNote == Init /\ [][NoteNext]_vars

(***************************************************************************)
(* SpecResync: the UART reader fed a stray byte and then well-formed       *)
(* frames back to back, one byte per pass and one pass per 1000 us, without*)
(* end.  The byte the line delivers next follows the one the reader took   *)
(* last, which last.i holds; after the reader has flushed the serial       *)
(* device (checkFraming, line 1032) the bytes that were waiting are gone   *)
(* and the line may resume at any byte of a frame.  No encoder and no      *)
(* switch is set up, so the only instants the state holds are now and      *)
(* uart.wake, and the reader depends on their difference alone: when the   *)
(* clock has reached ResyncEnd both are counted from a new origin, the     *)
(* instant the clock had reached, and the reader runs on.                  *)
(***************************************************************************)
StrayBytes == {7, 255}

FirstPayload == {0, 1}

SecondPayload == {3}

ResyncEnd == 21000

\* the bytes the line can deliver after the byte b
FollowingBytes(b) ==
    IF b = START_FRAME_VALUE THEN FirstPayload
    ELSE IF b \in FirstPayload THEN SecondPayload
    ELSE IF b \in SecondPayload THEN {END_FRAME_VALUE}
    ELSE {START_FRAME_VALUE}

\* serialGetchar, line 912: what it can return in this state
LineBytes ==
    IF last.op = "init" THEN StrayBytes
    ELSE IF last.op = "uart_byte" /\ uart.elementsInBuffer = 0
    THEN {START_FRAME_VALUE, END_FRAME_VALUE} \cup FirstPayload \cup SecondPayload
    ELSE IF last.op = "uart_byte" THEN FollowingBytes(last.i)
    ELSE {START_FRAME_VALUE}

ResyncByte == \E element \in LineBytes : uart_thread(element, 0)

ResyncClock ==
    /\ uart.wake > now
    /\ IF now < ResyncEnd
       THEN ClockAdvance(now + 1000)
       ELSE /\ ~fault
            /\ now' = 1000
            /\ uart' = [uart EXCEPT !.wake = uart.wake - now]
            /\ UNCHANGED <<zyncoders, zynswitches, pressed, out, last, fault, oob,
                           script, watch, calls>>

ResyncNext ==
    \/ ResyncByte
    \/ ResyncClock

SpecResync == Init /\ [][ResyncNext]_vars /\ WF_vars(ResyncNext)

(***************************************************************************)
(* SpecEdge: the UART build with its switches bound to MIDI events.  Each  *)
(* switch is set up once, switch 0 is bound once, and the reader takes the *)
(* bytes of the line.                                                      *)
(***************************************************************************)
EdgeEvents == {"CTRL_CHANGE", "NOTE_ON", "PROG_CHANGE"}

EdgeBytes == {START_FRAME_VALUE, END_FRAME_VALUE, 0, 1}

EdgeSetup ==
    \E i \in SwIdx :
        /\ zynswitches[i].enabled = 0
        /\ setup_zynswitch("UART", i, i, 0)

EdgeBind ==
    \E midi_evt \in EdgeEvents :
        /\ zynswitches[0].midi_type = "NONE_EVENT"
        /\ setup_zynswitch_midi(0, midi_evt, 0, 60, 100)

EdgeByte == \E element \in EdgeBytes : uart_thread(element, 0)

EdgeNext ==
    \/ EdgeSetup
    \/ EdgeBind
    \/ EdgeByte
    \/ UartClock

SpecEdge == Init /\ [][EdgeNext]_vars

(***************************************************************************)
(* Properties.                                                             *)
(***************************************************************************)
\* the bound setup_zyncoder was called with (velocity mode stores it scaled)
PassedMax(z) == IF z.step = 0 THEN z.max_value \div ZYNCODER_TICKS_PER_RETENT
                ELSE z.max_value

Floor(z) == z.subvalue \div ZYNCODER_TICKS_PER_RETENT

Ceil(z) == (z.subvalue + ZYNCODER_TICKS_PER_RETENT - 1) \div ZYNCODER_TICKS_PER_RETENT

\* the step is an update_zyncoder of enabled encoder i
IsUpdate(i) ==
    /\ last'.op = "update_zyncoder"
    /\ last'.i = i
    /\ zyncoders[i].enabled # 0
    /\ zyncoders' # zyncoders \/ last' # last \/ out' # out

\* the direction update_zyncoder decoded in this step
StepSum(i) == QuadSum(zyncoders[i].last_encoded, zyncoders'[i].last_encoded)

\* the step passes the debounce test of velocity mode (fixed-step mode has none)
Accepted(i) == zyncoders[i].step # 0 \/ uint(now - zyncoders[i].tsus) >= 1000

UpTick(i) == IsUpdate(i) /\ QuadUp(StepSum(i)) /\ Accepted(i)

DownTick(i) == IsUpdate(i) /\ QuadDown(StepSum(i)) /\ Accepted(i)

\* C1: every enabled encoder has 0 <= value <= max_value, max_value being the
\* bound passed to setup_encoder, in every reachable state.
C1_ValueWithinMax ==
    \A i \in EncIdx :
        zyncoders[i].enabled # 0 =>
            /\ 0 <= zyncoders[i].value
            /\ zyncoders[i].value <= PassedMax(zyncoders[i])

\* C2: midi_event_encoders hands nothing to any sink, whatever it changes.
C2_NoEmission == (last.op = "midi_event_zyncoders") => (out = <<>>)

\* a state right after a midi_event_zyncoders that gave encoder 0 a value no
\* other operation can give it
C2_Witness ==
    /\ last.op = "midi_event_zyncoders"
    /\ zyncoders[0].enabled # 0
    /\ zyncoders[0].midi_chan = last.i
    /\ zyncoders[0].value = 2

\* what get_value_zyncoder(i) returns in a state with the array zs
GetValueOf(zs, i) == IF i >= MAX_NUM_ZYNCODERS THEN 0 ELSE zs[i].value

\* C3: after midi_event_encoders(c, k, v) with v <= max_value, get_value_encoder
\* returns v for every enabled encoder bound to (c, k), in both modes.
C3_RoundTrip ==
    [][\A c \in MidiChans, k \in MidiCtrls, v \in MidiVals :
          midi_event_zyncoders(c, k, v) =>
              \A j \in EncIdx :
                  ( /\ zyncoders[j].enabled # 0
                    /\ zyncoders[j].midi_chan = c
                    /\ zyncoders[j].midi_ctrl = k
                    /\ v <= PassedMax(zyncoders[j]) )
                  => GetValueOf(zyncoders', j) = v]_vars

\* right after a midi_event_zyncoders: a velocity-mode and a fixed-step encoder,
\* both bound to the event's controller, both holding its value
C3_Witness ==
    /\ last.op = "midi_event_zyncoders"
    /\ \E j \in EncIdx, k \in EncIdx :
          /\ zyncoders[j].enabled # 0 /\ zyncoders[k].enabled # 0
          /\ zyncoders[j].step = 0 /\ zyncoders[k].step > 0
          /\ zyncoders[j].midi_chan = last.i /\ zyncoders[k].midi_chan = last.i
          /\ zyncoders[j].value = 2 /\ zyncoders[k].value = 2
          /\ zyncoders[j].subvalue = 2 * ZYNCODER_TICKS_PER_RETENT

\* C4 as stated: in velocity mode value is subvalue / TICKS_PER_RETENT rounded
\* down, after every operation.
C4_FloorAlways ==
    \A i \in EncIdx :
        (zyncoders[i].enabled # 0 /\ zyncoders[i].step = 0) =>
            zyncoders[i].value = Floor(zyncoders[i])

\* C4 amended: in velocity mode an accepted Down tick leaves value equal to
\* subvalue / TICKS_PER_RETENT rounded up; every other operation that writes
\* value or subvalue (setup, set_value, midi_event, an Up tick) leaves it
\* rounded down, as long as value times TICKS_PER_RETENT fits the unsigned
\* field (setup_encoder's multiplication wraps beyond that).
C4_Rounding ==
    [][\A i \in EncIdx :
          ( /\ zyncoders'[i].enabled # 0 /\ zyncoders'[i].step = 0
            /\ zyncoders'[i].value * ZYNCODER_TICKS_PER_RETENT < UINT_RANGE ) =>
              IF DownTick(i) /\ zyncoders[i].step = 0
              THEN zyncoders'[i].value = Ceil(zyncoders'[i])
              ELSE ( \/ zyncoders'[i].value # zyncoders[i].value
                     \/ zyncoders'[i].subvalue # zyncoders[i].subvalue
                     \/ zyncoders'[i].step # zyncoders[i].step
                     \/ UpTick(i) )
                   => zyncoders'[i].value = Floor(zyncoders'[i])]_vars

\* right after an update_zyncoder that went Down: value is the rounded-up
\* quotient, one above the rounded-down one
C4_Witness ==
    /\ last.op = "update_zyncoder"
    /\ zyncoders[0].enabled # 0 /\ zyncoders[0].step = 0
    /\ zyncoders[0].tsus = now
    /\ zyncoders[0].subvalue = 1
    /\ zyncoders[0].value = 1

\* C8: an update_zyncoder handed the pin pair of the update_zyncoder just before
\* it leaves value as it is and sends nothing.
C8_Idempotent ==
    [][\A i \in EncIdx :
          (IsUpdate(i) /\ last'.rep) =>
              /\ zyncoders'[i].value = zyncoders[i].value
              /\ out' = <<>>]_vars

\* right after a repeated observation that passed the debounce test
C8_Witness ==
    /\ last.op = "update_zyncoder" /\ last.rep /\ last.acc
    /\ zyncoders[last.i].enabled # 0
    /\ zyncoders[last.i].step = 0
    /\ zyncoders[last.i].tsus = now
    /\ zyncoders[last.i].last_encoded = 2

\* the last eight observations of encoder i were DetentScript, start to end
DetentDone(i) ==
    /\ script[i].on
    /\ script[i].n = 8
    /\ zyncoders[i].enabled # 0
    /\ last.op = "update_zyncoder" /\ last.i = i

\* C9 as stated: one full detent Up and then the same transitions reversed
\* return value to where it started, exactly in fixed-step mode and within one
\* in velocity mode.
C9_Symmetry ==
    \A i \in EncIdx :
        DetentDone(i) =>
            IF zyncoders[i].step # 0
            THEN zyncoders[i].value = script[i].v0
            ELSE zyncoders[i].value \in (script[i].v0 - 1) .. (script[i].v0 + 1)

\* the Up half of the detent had room below max_value
DetentRoom(i) ==
    IF zyncoders[i].step # 0
    THEN script[i].v0 + (4 * zyncoders[i].step) <= zyncoders[i].max_value
    ELSE script[i].sub0 + (4 * script[i].d) <= zyncoders[i].max_value

\* C9 amended: the detent and its reverse return value to where it started
\* (exactly in fixed-step mode, within one in velocity mode) when the four Up
\* ticks fit below max_value and, in velocity mode, all eight observations
\* pass the debounce test with the same step size.
C9_SymmetryWithRoom ==
    \A i \in EncIdx :
        (DetentDone(i) /\ DetentRoom(i) /\ script[i].same) =>
            IF zyncoders[i].step # 0
            THEN zyncoders[i].value = script[i].v0
            ELSE zyncoders[i].value \in (script[i].v0 - 1) .. (script[i].v0 + 1)

\* a velocity-mode encoder back at value 1 after eight accepted ticks of step
\* size 1, the first of which found it there
C9_Witness ==
    /\ DetentDone(0) /\ DetentRoom(0) /\ script[0].same
    /\ zyncoders[0].step = 0
    /\ script[0].d = 1
    /\ script[0].v0 = 1
    /\ zyncoders[0].value = 1

\* where the encoder stands on its scale, and the scale's top
Pos(z) == IF z.step = 0 THEN z.subvalue ELSE z.value

Top(z) == z.max_value

\* C10 as stated: accepted Up ticks drive the encoder to max_value and accepted
\* Down ticks drive it to 0: an accepted Up tick moves it up unless it ends at
\* max_value, an accepted Down tick moves it down unless it ends at 0.
C10_Saturation ==
    [][\A i \in EncIdx :
          /\ UpTick(i) =>
                \/ Pos(zyncoders'[i]) > Pos(zyncoders[i])
                \/ Pos(zyncoders'[i]) = Top(zyncoders'[i])
          /\ DownTick(i) =>
                \/ Pos(zyncoders'[i]) < Pos(zyncoders[i])
                \/ Pos(zyncoders'[i]) = 0]_vars

\* the step is update_zynswitch seeing switch i, held since a press edge, go up
IsRelease(i) ==
    /\ last'.op = "update_zynswitch" /\ last'.i = i
    /\ zynswitches[i].enabled # 0
    /\ pressed[i] > 0
    /\ zynswitches[i].status = 0 /\ zynswitches'[i].status = 1

\* what a get_zynswitch_dtus does with a duration that is pending, or with
\* nothing pending and no press being timed
GetReturnsPending(i) ==
    \A long_dtus \in LongDtus :
        get_zynswitch_dtus(i, long_dtus) =>
            /\ zynswitches[i].dtus > 0 =>
                  /\ last'.ret = zynswitches[i].dtus
                  /\ zynswitches[i].dtus >= 1000
            /\ (zynswitches[i].dtus = 0 /\ zynswitches[i].tsus = 0) => last'.ret = 0

\* C6 as stated: a release less than 1000 us after its press edge records no
\* duration and a following get_zynswitch_dtus returns 0; a release d >= 1000
\* us after the press edge records d, which the next get_zynswitch_dtus
\* returns; a stored dtus is >= 1000.
C6_Debounce ==
    [][\A i \in SwIdx :
          /\ IsRelease(i) =>
                IF uint(now - pressed[i]) < 1000
                THEN /\ zynswitches'[i].dtus = zynswitches[i].dtus
                     /\ zynswitches'[i].tsus = 0
                ELSE zynswitches'[i].dtus = uint(now - pressed[i])
          /\ GetReturnsPending(i)]_vars

\* C6 amended: as C6, for a press that no get_zynswitch_dtus has reported as a
\* long press (tsus still holds its press edge); the release of a press
\* already reported records nothing.
C6_DebounceUnreported ==
    [][\A i \in SwIdx :
          /\ IsRelease(i) =>
                IF zynswitches[i].tsus = 0
                THEN zynswitches'[i].dtus = zynswitches[i].dtus
                ELSE IF uint(now - pressed[i]) < 1000
                THEN /\ zynswitches'[i].dtus = zynswitches[i].dtus
                     /\ zynswitches'[i].tsus = 0
                ELSE zynswitches'[i].dtus = uint(now - pressed[i])
          /\ GetReturnsPending(i)]_vars

\* right after a get_zynswitch_dtus that returned the 2000 us between the press
\* and the release of a switch
C6_Witness ==
    /\ last.op = "get_zynswitch_dtus" /\ last.i \in SwIdx
    /\ last.ret = 2000
    /\ zynswitches[last.i].status = 1
    /\ zynswitches[last.i].dtus = 0
    /\ now = 7000

\* C7 as stated: while switch i is held, a get_zynswitch_dtus made when the
\* time since the press edge exceeds long_dtus returns that time and clears
\* tsus, one made earlier returns 0 and leaves tsus, and once the press has
\* been reported every call returns 0.
C7_LongPress ==
    [][\A i \in SwIdx, long_dtus \in LongDtus :
          ( /\ get_zynswitch_dtus(i, long_dtus)
            /\ zynswitches[i].enabled # 0
            /\ pressed[i] > 0 ) =>
              IF zynswitches[i].tsus = 0 THEN last'.ret = 0
              ELSE IF uint(now - pressed[i]) > long_dtus
              THEN /\ last'.ret = uint(now - pressed[i])
                   /\ zynswitches'[i].tsus = 0
              ELSE /\ last'.ret = 0
                   /\ zynswitches'[i].tsus = zynswitches[i].tsus]_vars

\* C7 amended: as C7 when no duration is pending (dtus = 0); with one pending
\* the call returns it and leaves tsus as it is, however long the switch has
\* been held.
C7_LongPressNothingPending ==
    [][\A i \in SwIdx, long_dtus \in LongDtus :
          ( /\ get_zynswitch_dtus(i, long_dtus)
            /\ zynswitches[i].enabled # 0
            /\ pressed[i] > 0 ) =>
              IF zynswitches[i].dtus > 0
              THEN /\ last'.ret = zynswitches[i].dtus
                   /\ zynswitches'[i].tsus = zynswitches[i].tsus
              ELSE IF zynswitches[i].tsus = 0 THEN last'.ret = 0
              ELSE IF uint(now - pressed[i]) > long_dtus
              THEN /\ last'.ret = uint(now - pressed[i])
                   /\ zynswitches'[i].tsus = 0
              ELSE /\ last'.ret = 0
                   /\ zynswitches'[i].tsus = zynswitches[i].tsus]_vars

\* right after the get_zynswitch_dtus that reported a switch held since its
\* press edge
C7_Witness ==
    /\ last.op = "get_zynswitch_dtus" /\ last.i \in SwIdx
    /\ zynswitches[last.i].enabled # 0
    /\ pressed[last.i] > 0
    /\ zynswitches[last.i].status = 0
    /\ zynswitches[last.i].tsus = 0
    /\ last.ret = now - pressed[last.i]
    /\ last.ret > 1500

\* C5: once a valid UART frame has been processed, the status of every enabled
\* switch is the level the frame carries for it.
C5_FrameMirrored ==
    [][\A element \in UartBytes, stray \in Bit :
          (uart_thread(element, stray) /\ last'.op = "uart_frame") =>
              \A i \in SwIdx :
                  zynswitches'[i].enabled # 0 =>
                      zynswitches'[i].status =
                          PayloadBit(<<last'.i, last'.ret>>, zynswitches'[i].pin, stray)]_vars

\* C11: every velocity-mode tick that passes the debounce test runs to its end
\* with a step size dsval between 1 and 2 * ZYNCODER_TICKS_PER_RETENT, whatever
\* the gaps between the ticks and the contents of the dtus ring.
C11_DsvalRange ==
    /\ ~fault
    /\ \A i \in EncIdx :
          /\ last.op = "update_zyncoder"
          /\ last.i = i
          /\ last.acc
          /\ zyncoders[i].step = 0
          => last.dsval \in 1 .. (2 * ZYNCODER_TICKS_PER_RETENT)

\* the bytes getBufferData refuses in a payload
ReservedBytes == {START_FRAME_VALUE, END_FRAME_VALUE, 255}

\* the step is the reader's, completing a frame with START and END in place
\* whose payload, kept in last, holds a reserved byte
CorruptFrameStep ==
    /\ last'.op \in {"uart_frame", "uart_corrupt"}
    /\ last'.i \in ReservedBytes \/ last'.ret \in ReservedBytes

\* C12: the reader step that completes a frame with START and END in place
\* and 0xEA, 0xFB or 0xFF in its payload calls neither update_zyncoder nor
\* update_zynswitches: no encoder or switch changes and nothing is emitted.
C12_CorruptRejected ==
    [][CorruptFrameStep =>
          /\ last'.op = "uart_corrupt"
          /\ zyncoders' = zyncoders
          /\ zynswitches' = zynswitches
          /\ pressed' = pressed
          /\ out' = <<>>]_vars

\* a frame was refused whose first payload byte carries level 1 for switch 0,
\* enabled and at status 0, with the encoder set up
C12_Witness ==
    /\ last.op = "uart_corrupt"
    /\ last.i = 3
    /\ last.ret \in ReservedBytes
    /\ zynswitches[0].enabled = 1
    /\ zynswitches[0].status = 0
    /\ zyncoders[0].enabled = 1

\* the operation that made this step was called with an index at or past the
\* capacity of its array
OutOfRangeCall ==
    \/ /\ last'.op \in {"setup_zyncoder", "get_value_zyncoder", "set_value_zyncoder"}
       /\ last'.i >= MAX_NUM_ZYNCODERS
    \/ /\ last'.op \in {"setup_zynswitch", "setup_zynswitch_midi", "get_zynswitch_dtus"}
       /\ last'.i >= MAX_NUM_ZYNSWITCHES

\* C13: setup_zyncoder, setup_zynswitch, setup_zynswitch_midi,
\* get_value_zyncoder, set_value_zyncoder and get_zynswitch called with an
\* index at or past the capacity, the capacity itself included, return
\* NULL / 0 and write nothing, inside the arrays or outside them.
C13_OutOfRange ==
    [][OutOfRangeCall =>
          /\ last'.ret = 0
          /\ zyncoders' = zyncoders
          /\ zynswitches' = zynswitches
          /\ oob' = oob]_vars

\* encoder 0 was set up, for the first time, on pins 0 and 1 with value 10,
\* max_value 100, step 1 and MIDI controller 7, and has since been handed
\* (A,B) = (0,0), (1,0), (1,1), each 2 ms or more after the one before
SlowTickDone ==
    /\ watch[0].mode = "first" /\ watch[0].ok
    /\ watch[0].seen = <<Encoded(0, 0), Encoded(1, 0), Encoded(1, 1)>>
    /\ watch[0].v0 = 10 /\ watch[0].e0 = 0
    /\ zyncoders[0].step = 1
    /\ zyncoders[0].max_value = 100
    /\ zyncoders[0].midi_ctrl = 7

\* C14 as stated: the three observations leave value 11 and have sent
\* exactly one control change, (0, 7, 11).
C14_OneTick ==
    SlowTickDone =>
        /\ zyncoders[0].value = 11
        /\ watch[0].sent = << Msg("internal_send_ccontrol_change", "", 0, 7, 11) >>

\* C14, amended: (0,0) -> (1,0) and (1,0) -> (1,1) are two Up transitions and
\* fixed-step mode adds step at each: the three observations leave value 12
\* and have sent two control changes, (0, 7, 11) and then (0, 7, 12).
C14_TwoTicks ==
    SlowTickDone =>
        /\ zyncoders[0].value = 12
        /\ watch[0].sent = << Msg("internal_send_ccontrol_change", "", 0, 7, 11),
                              Msg("internal_send_ccontrol_change", "", 0, 7, 12) >>

C14_Witness == SlowTickDone /\ last.op = "update_zyncoder" /\ now >= 9000

\* encoder 0 was set up in velocity mode with value 0 and max_value 1000 and
\* has since been handed n Up transitions and nothing else, each passing the
\* debounce test and each SlowGap after the one before
BurstOf(n) ==
    /\ watch[0].mode = "burst" /\ watch[0].ok
    /\ watch[0].n = n
    /\ watch[0].v0 = 0
    /\ zyncoders[0].step = 0
    /\ PassedMax(zyncoders[0]) = 1000

\* C15 as stated: eight Up transitions 2 ms apart advance subvalue by
\* 10000 * 4 / 2000 = 20 each, ending with subvalue about 160 (within one
\* tick of it) and value about 40.
C15_BurstOfTwenties ==
    BurstOf(BurstLen) =>
        /\ zyncoders[0].subvalue \in (20 * (BurstLen - 1)) .. (20 * (BurstLen + 1))
        /\ zyncoders[0].value \in (5 * (BurstLen - 1)) .. (5 * (BurstLen + 1))

\* C15, amended: the quotient 20 is clamped to 2 * ZYNCODER_TICKS_PER_RETENT:
\* every transition of the burst advances subvalue by a dsval from 1 to 8,
\* by exactly 8 from the sixth on (the ring then holds 2 ms gaps only), so
\* eight transitions end with subvalue from 29 to 64 and value = subvalue / 4,
\* from 7 to 16.
C15_BurstClamped ==
    \A n \in 1 .. BurstLen :
        BurstOf(n) =>
            /\ last.dsval \in 1 .. (2 * ZYNCODER_TICKS_PER_RETENT)
            /\ n > ZYNCODER_TICKS_PER_RETENT + 1 =>
                  last.dsval = 2 * ZYNCODER_TICKS_PER_RETENT
            /\ zyncoders[0].subvalue <= 2 * ZYNCODER_TICKS_PER_RETENT * n
            /\ zyncoders[0].subvalue >=
                  IF n <= ZYNCODER_TICKS_PER_RETENT + 1 THEN n
                  ELSE (ZYNCODER_TICKS_PER_RETENT + 1)
                       + (2 * ZYNCODER_TICKS_PER_RETENT
                            * (n - (ZYNCODER_TICKS_PER_RETENT + 1)))
            /\ zyncoders[0].value = Floor(zyncoders[0])

\* a whole burst that began a second after the clock's origin, its first
\* five step sizes 1
C15_Witness ==
    /\ BurstOf(BurstLen)
    /\ now >= 1000000
    /\ zyncoders[0].subvalue < 2 * ZYNCODER_TICKS_PER_RETENT * BurstLen

\* the step is an update_zyncoder that changes the value of encoder i
ValueChanged(i) == IsUpdate(i) /\ zyncoders'[i].value # zyncoders[i].value

\* the step sends one OSC message and nothing else
OnlyOsc == Len(out') = 1 /\ out'[1].sink = "lo_send"

\* C16 as stated: a value change of an encoder with midi_ctrl > 0 sends the
\* control change to the engine sink and to the UI sink and no OSC message;
\* with midi_ctrl = 0 and an OSC path bound only the OSC message is sent.
C16_BothSinks ==
    [][\A i \in EncIdx :
          ValueChanged(i) =>
              LET z == zyncoders'[i]
              IN  /\ z.midi_ctrl > 0 =>
                        out' = << Msg("internal_send_ccontrol_change", "",
                                      z.midi_chan, z.midi_ctrl, z.value),
                                  Msg("write_zynmidi_ccontrol_change", "",
                                      z.midi_chan, z.midi_ctrl, z.value) >>
                  /\ (z.midi_ctrl = 0 /\ z.osc_lo_addr /\ z.osc_path) => OnlyOsc]_vars

\* C16, amended: the control change goes to the engine sink only,
\* internal_send_ccontrol_change; nothing is written to the UI sink.
C16_EngineSinkOnly ==
    [][\A i \in EncIdx :
          ValueChanged(i) =>
              LET z == zyncoders'[i]
              IN  /\ z.midi_ctrl > 0 =>
                        out' = << Msg("internal_send_ccontrol_change", "",
                                      z.midi_chan, z.midi_ctrl, z.value) >>
                  /\ (z.midi_ctrl = 0 /\ z.osc_lo_addr /\ z.osc_path) => OnlyOsc]_vars

\* right after a tick that changed the value of an encoder bound to MIDI
\* controller 7 and sent it
C16_Witness ==
    /\ last.op = "update_zyncoder"
    /\ zyncoders[last.i].midi_ctrl = 7
    /\ out = << Msg("internal_send_ccontrol_change", "", 0, 7, zyncoders[last.i].value) >>

\* the step is an edge of enabled switch i, configured CTRL_CHANGE, seen by
\* update_zynswitch
ControlEdge(i) ==
    /\ last'.op = "update_zynswitch" /\ last'.i = i
    /\ zynswitches[i].enabled = 1
    /\ zynswitches[i].midi_type = "CTRL_CHANGE"
    /\ zynswitches'[i].status # zynswitches[i].status

\* C17: every edge of an enabled CTRL_CHANGE switch sends the control change
\* (chan, num, v), v being midi_event.val when the new status is 0 and 0
\* otherwise; after it every enabled encoder bound to (chan, num) has value v
\* and subvalue v * ZYNCODER_TICKS_PER_RETENT, and the other encoders are as
\* they were.
C17_SwitchControlChange ==
    [][\A i \in SwIdx :
          ControlEdge(i) =>
              LET sw == zynswitches[i]
                  v == IF zynswitches'[i].status = 0 THEN sw.midi_val ELSE 0
              IN  /\ out' = << Msg("internal_send_ccontrol_change", "",
                                    sw.midi_chan, sw.midi_num, v),
                                Msg("write_zynmidi_ccontrol_change", "",
                                    sw.midi_chan, sw.midi_num, v) >>
                  /\ \A j \in EncIdx :
                        IF /\ zyncoders[j].enabled # 0
                           /\ zyncoders[j].midi_chan = sw.midi_chan
                           /\ zyncoders[j].midi_ctrl = sw.midi_num
                        THEN /\ zyncoders'[j].value = v
                             /\ zyncoders'[j].subvalue = v * ZYNCODER_TICKS_PER_RETENT
                        ELSE zyncoders'[j] = zyncoders[j]]_vars

\* right after a press edge of switch 0 that sent value 3 for controller 7:
\* encoder 0, bound to it, in velocity mode, holds 3 and 12, and encoder 1,
\* bound to controller 8, is enabled
C17_Witness ==
    /\ last.op = "update_zynswitch" /\ last.i = 0
    /\ Len(out) = 2 /\ out[1].val = 3 /\ out[1].sink = "internal_send_ccontrol_change"
    /\ zynswitches[0].status = 0
    /\ zyncoders[0].enabled = 1 /\ zyncoders[0].step = 0
    /\ zyncoders[0].value = 3 /\ zyncoders[0].subvalue = 12
    /\ zyncoders[1].enabled = 1 /\ zyncoders[1].midi_ctrl = 8

\* encoder record z has somewhere to send to: a MIDI controller or an OSC path
Routed(z) == z.midi_ctrl > 0 \/ (z.osc_lo_addr /\ z.osc_path)

Min(a, b) == IF a < b THEN a ELSE b

\* C18 as stated: set_value_zyncoder(i, v, send) on an enabled encoder leaves
\* value min(v, max_value), in velocity mode with subvalue that times
\* ZYNCODER_TICKS_PER_RETENT, sends exactly one message if send is nonzero
\* and none otherwise, and does nothing on a disabled encoder.
C18_SetValue ==
    [][\A i \in EncIdx, v \in SetInputs, send \in Bit :
          set_value_zyncoder(i, v, send) =>
              IF zyncoders[i].enabled = 0
              THEN zyncoders' = zyncoders /\ out' = <<>>
              ELSE LET z == zyncoders'[i]
                       w == Min(v, PassedMax(zyncoders[i]))
                   IN  /\ z.value = w
                       /\ z.step = 0 => z.subvalue = w * ZYNCODER_TICKS_PER_RETENT
                       /\ Len(out') = IF send # 0 THEN 1 ELSE 0]_vars

\* C18, amended: the value is min(v, max_value) when v times
\* ZYNCODER_TICKS_PER_RETENT fits an unsigned int (fixed-step mode does not
\* multiply), and the one message is sent when send is nonzero and the
\* encoder has a MIDI controller or an OSC path; without either nothing is
\* sent.
C18_SetValueRouted ==
    [][\A i \in EncIdx, v \in SetInputs, send \in Bit :
          set_value_zyncoder(i, v, send) =>
              IF zyncoders[i].enabled = 0
              THEN zyncoders' = zyncoders /\ out' = <<>>
              ELSE LET z == zyncoders'[i]
                       w == Min(v, PassedMax(zyncoders[i]))
                   IN  /\ (z.step # 0 \/ v * ZYNCODER_TICKS_PER_RETENT < UINT_RANGE) =>
                             /\ z.value = w
                             /\ z.step = 0 => z.subvalue = w * ZYNCODER_TICKS_PER_RETENT
                       /\ Len(out') = IF send # 0 /\ Routed(z) THEN 1 ELSE 0]_vars

\* right after set_value_zyncoder clamped 9 to max_value 5 on a velocity-mode
\* encoder and sent it to its OSC path
C18_Witness ==
    /\ last.op = "set_value_zyncoder"
    /\ zyncoders[last.i].enabled = 1 /\ zyncoders[last.i].step = 0
    /\ zyncoders[last.i].value = 5 /\ zyncoders[last.i].subvalue = 20
    /\ out = << Msg("lo_send", "i", 0, 0, 5) >>

\* the step is a setup_zyncoder of encoder i (or leaves everything but the
\* clock as that setup left it)
SetupStep(i) == last'.op = "setup_zyncoder" /\ last'.i = i

\* the encoder was enabled and the setup names the pins it already had
SamePins(i) ==
    /\ zyncoders[i].enabled = 1
    /\ zyncoders'[i].pin_a = zyncoders[i].pin_a
    /\ zyncoders'[i].pin_b = zyncoders[i].pin_b

\* a bank handler found the pins of encoder i at other levels than it had
\* seen last and handed them to update_zyncoder
FedBack(i) ==
    \/ zyncoders'[i].pin_a_last_state # zyncoders[i].pin_a_last_state
    \/ zyncoders'[i].pin_b_last_state # zyncoders[i].pin_b_last_state

\* C19 as stated: setup_zyncoder on an enabled encoder with the pins it has
\* leaves last_encoded, tsus and the dtus ring as they were; with another
\* pin_a or pin_b, or on a disabled encoder, it leaves last_encoded and tsus 0.
C19_Resetup ==
    [][\A i \in EncIdx :
          SetupStep(i) =>
              IF SamePins(i)
              THEN /\ zyncoders'[i].last_encoded = zyncoders[i].last_encoded
                   /\ zyncoders'[i].tsus = zyncoders[i].tsus
                   /\ zyncoders'[i].dtus = zyncoders[i].dtus
              ELSE /\ zyncoders'[i].last_encoded = 0
                   /\ zyncoders'[i].tsus = 0]_vars

\* C19, amended: in the MCP23017 build the setup that cleared last_encoded
\* and tsus goes on to run the handlers of both banks; where the pins of the
\* encoder (both on one bank) read other levels than the handler saw last,
\* the setup returns with last_encoded holding those levels and, in velocity
\* mode, tsus holding the time of the call.
C19_ResetupSynced ==
    [][\A i \in EncIdx :
          SetupStep(i) =>
              IF SamePins(i)
              THEN /\ zyncoders'[i].last_encoded = zyncoders[i].last_encoded
                   /\ zyncoders'[i].tsus = zyncoders[i].tsus
                   /\ zyncoders'[i].dtus = zyncoders[i].dtus
              ELSE IF ~FedBack(i)
              THEN /\ zyncoders'[i].last_encoded = 0
                   /\ zyncoders'[i].tsus = 0
              ELSE /\ zyncoders'[i].last_encoded =
                          Encoded(zyncoders'[i].pin_a_last_state,
                                  zyncoders'[i].pin_b_last_state)
                   /\ zyncoders'[i].tsus = IF zyncoders'[i].step = 0 THEN now ELSE 0]_vars

\* right after a setup of encoder 0, in velocity mode, on pins 102 and 103
\* while both read 1
C19_Witness ==
    /\ last.op = "setup_zyncoder" /\ last.i = 0
    /\ zyncoders[0].pin_a = MCP23017_BASE_PIN + 2
    /\ zyncoders[0].step = 0
    /\ zyncoders[0].last_encoded = 3
    /\ zyncoders[0].tsus = now
    /\ zyncoders[0].dtus # ZeroRing

(***************************************************************************)
(* C20: when midi_event_zyncoders overlaps an update_zyncoder or a         *)
(* set_value_zyncoder on the same encoder, once both have returned value   *)
(* and subvalue are what the two calls leave in one of the two serial      *)
(* orders, or what one of them leaves alone.                               *)
(***************************************************************************)
RaceOver ==
    /\ ~fault
    /\ TransportIdle /\ MidiIdle
    /\ calls.T # <<>> /\ calls.M # <<>>

C20_SerialOutcome ==
    RaceOver =>
        Stored(zyncoders) \in
            {Stored(x) : x \in SerialOutcomes(calls.zs0[1], calls.T[1], calls.M[1])}

(***************************************************************************)
(* C21: the value update_zyncoder hands to the sink is the value that      *)
(* call itself stored, whatever midi_event_zyncoders does meanwhile, so    *)
(* the sink receives the accepted value changes in their order.            *)
(***************************************************************************)
C21_EmitsOwnValue ==
    [][(calls.send # <<>> /\ calls'.send = <<>> /\ out' # <<>>)
          => out'[1].val = calls.send[1].value]_vars

(***************************************************************************)
(* C22: an observation of an enabled encoder, in either mode, that comes   *)
(* less than 1000 us after the last accepted tick leaves value, subvalue   *)
(* and tsus alone and sends nothing.                                       *)
(***************************************************************************)
\* the step before this one was an update of encoder i that changed its
\* value and sent it, and the clock has not moved since
RecentChange(i) ==
    /\ last.op = "update_zyncoder" /\ last.i = i
    /\ out # <<>>

\* less than 1000 us have passed since the tick velocity mode last accepted
WithinDebounce(i) == zyncoders[i].step = 0 /\ uint(now - zyncoders[i].tsus) < 1000

Discarded(i) ==
    /\ zyncoders'[i].value = zyncoders[i].value
    /\ zyncoders'[i].subvalue = zyncoders[i].subvalue
    /\ zyncoders'[i].tsus = zyncoders[i].tsus
    /\ out' = <<>>

FullBufferRefused ==
    /\ last'.op \in {"uart_corrupt", "uart_byte"}
    /\ uart' # uart
    /\ uart.elementsInBuffer >= BUFFER_SIZE_BYTES - 1

C23_CorruptFlushed ==
    [][FullBufferRefused =>
          /\ uart'.head = 0
          /\ uart'.tail = 0
          /\ uart'.elementsInBuffer = 0]_vars

(***************************************************************************)
(* C24: for a velocity-mode tick that passes the debounce test, the        *)
(* average of the new interval and the four stored ones, summed in         *)
(* unsigned arithmetic, is never 0 when line 640 divides by it.            *)
(***************************************************************************)
\* lines 631-633: dtus_avg as update_zyncoder is about to compute it
DtusAvg(i) ==
    RingSum(uint(now - zyncoders[i].tsus), zyncoders[i].dtus)
        \div (ZYNCODER_TICKS_PER_RETENT + 1)

C24_DivisorNonZero ==
    [][\A i \in EncIdx :
          (IsUpdate(i) /\ zyncoders[i].step = 0 /\ ~WithinDebounce(i))
              => DtusAvg(i) # 0]_vars

(***************************************************************************)
(* C25: a switch bound to NOTE_ON and not bound again sends, from          *)
(* setup_zynswitch on and starting released, note-on and note-off in       *)
(* turn, note-on first: a note-off is sent only for a note-on sent before  *)
(* it, which is on the press edge that pressed records.                    *)
(***************************************************************************)
\* the step sees an edge of switch i, bound to NOTE_ON, and sends its note-off
NoteOffSent(i) ==
    /\ zynswitches[i].enabled # 0
    /\ zynswitches[i].midi_type = "NOTE_ON"
    /\ zynswitches'[i].status # zynswitches[i].status
    /\ \E k \in 1 .. Len(out') :
          out'[k] = Msg("internal_send_note_off", "", zynswitches[i].midi_chan,
                        zynswitches[i].midi_num, 0)

C25_NoteOffFollowsNoteOn ==
    [][\A i \in SwIdx : NoteOffSent(i) => pressed[i] > 0]_vars

(***************************************************************************)
(* C26: once a stray byte has put the reader out of step, well-formed      *)
(* frames arriving back to back make it accept a frame, and call           *)
(* update_zyncoder and update_zynswitches, sooner or later.                *)
(***************************************************************************)
C26_Resync == <>(last.op = "uart_frame")

(***************************************************************************)
(* C27: in every build, the edge of a switch on which its press event is   *)
(* sent (note-on, program change, or the control change carrying           *)
(* midi_event.val) is the edge that starts the timing of the press (tsus   *)
(* becomes the current time), and the edge on which its release event is   *)
(* sent (note-off, or the control change carrying 0) is the edge that ends *)
(* it (tsus cleared, the duration stored if it is 1000 us or more).        *)
(***************************************************************************)
\* the step sees the level of enabled switch i change
SwitchEdge(i) ==
    /\ zynswitches[i].enabled # 0
    /\ zynswitches'[i].enabled # 0
    /\ zynswitches'[i].status # zynswitches[i].status

Sent(m) == \E k \in 1 .. Len(out') : out'[k] = m

\* lines 284-339: the step sends what switch i sends when it is pressed
PressEventSent(i) ==
    LET sw == zynswitches[i]
    IN  \/ /\ sw.midi_type = "NOTE_ON"
           /\ Sent(Msg("internal_send_note_on", "", sw.midi_chan, sw.midi_num, sw.midi_val))
        \/ /\ sw.midi_type = "PROG_CHANGE"
           /\ Sent(Msg("internal_send_program_change", "", sw.midi_chan, sw.midi_num, 0))
        \/ /\ sw.midi_type = "CTRL_CHANGE" /\ sw.midi_val # 0
           /\ Sent(Msg("internal_send_ccontrol_change", "", sw.midi_chan, sw.midi_num,
                       sw.midi_val))

\* lines 284-310: the step sends what switch i sends when it is released
ReleaseEventSent(i) ==
    LET sw == zynswitches[i]
    IN  \/ /\ sw.midi_type = "NOTE_ON"
           /\ Sent(Msg("internal_send_note_off", "", sw.midi_chan, sw.midi_num, 0))
        \/ /\ sw.midi_type = "CTRL_CHANGE" /\ sw.midi_val # 0
           /\ Sent(Msg("internal_send_ccontrol_change", "", sw.midi_chan, sw.midi_num, 0))

C27_PressEdgeTimed ==
    [][\A i \in SwIdx :
          SwitchEdge(i) =>
              /\ PressEventSent(i) => zynswitches'[i].tsus = now
              /\ ReleaseEventSent(i) =>
                    /\ zynswitches'[i].tsus = 0
                    /\ (zynswitches[i].tsus > 0 /\ uint(now - zynswitches[i].tsus) >= 1000)
                          => zynswitches'[i].dtus = uint(now - zynswitches[i].tsus)]_vars

====
